---- MODULE Spec2Model ----
(***************************************************************************)
(* Benchmark-log analysis scripts of parallelSystems: the parsers that     *)
(* turn log lines into tables of measurements, and the loops that derive   *)
(* speedups from them.  Each script is a state machine of its own; the     *)
(* scripts share no state, so each has its own specification in which the  *)
(* variables of the other scripts keep their initial values.               *)
(*                                                                         *)
(* Python values are modelled as follows.  A dict is a function with a     *)
(* finite domain; None is the integer -1 where the other values are        *)
(* non-negative numbers and the string "None" where they are strings; a    *)
(* float quotient a / b is the pair <<a, b>> (Ratio), so that a speedup    *)
(* records its numerator and denominator; a ZeroDivisionError or           *)
(* ValueError is the script's pc becoming "raised".                        *)
(***************************************************************************)
EXTENDS Integers, Sequences, FiniteSets, TLC

None == -1
NoneStr == "None"

\* a number token the capture group [\d.]+ admits and float() rejects ('1.2.3', '.')
Malformed == -2

EmptyDict == [x \in {} |-> 0]

Ratio(a, b) == <<a, b>>

Min2(a, b) == IF a <= b THEN a ELSE b

SetMin(S) == CHOOSE x \in S : \A y \in S : x <= y

SetMax(S) == CHOOSE x \in S : \A y \in S : y <= x

\* dict[key] = value, adding the key when it is new
Put(d, k, v) == [x \in DOMAIN d \cup {k} |-> IF x = k THEN v ELSE d[x]]

\* dict.get(key) with default None
Get(d, k) == IF k \in DOMAIN d THEN d[k] ELSE None

(***************************************************************************)
(* lab2/kmeans/diagram_generator/plot_all_results.py                       *)
(***************************************************************************)
VARIABLES
    entries_seen,     \* the (label, entry) pairs aggregate_runs has consumed, in scan order
    data,             \* aggregate_runs: label -> numThreads -> per-loop time
    data_order,       \* insertion order of data's keys (dict iteration order)
    raw_entries,      \* aggregate_runs: label -> list of (t, time)
    metadata,         \* aggregate_runs: label -> configuration of the label's first entry
    sequential_data,  \* aggregate_runs: config key -> sequential time
    km_pc,            \* "aggregate" | "plot" | "done" | "raised"
    km_i,             \* plot_per_implementation: index into data_order of the next label
    km_plots,         \* plot_per_implementation: label -> the series plotted for it
    km_warned         \* plot_per_implementation: labels warned about (no baseline)

kmVars == <<entries_seen, data, data_order, raw_entries, metadata,
            sequential_data, km_pc, km_i, km_plots, km_warned>>

MaxEntries == 3

KmLabels == {"sequential", "omp_naive"}

\* 'sequential' in label.lower()
IsSequentialLabel(label) == label \in {"sequential"}

\* (dataset_size_MB, numCoords, numClusters) of the header lines in the logs
KmConfigs == {<<16, 2, 4>>, <<16, 2, 8>>}

KmThreads == {None, 2, 3}

KmTimes == {None, 1, 2}

\* the dicts parse_results returns (numObjs, nloops and total_time_s are never read)
KmEntries ==
    { [dataset_size_MB |-> c[1], numCoords |-> c[2], numClusters |-> c[3],
       numThreads |-> t, per_loop_time_s |-> tm] :
         c \in KmConfigs, t \in KmThreads, tm \in KmTimes }

\* the entries of logs of one configuration in which a run can report a
\* per-loop time of 0.0000s; 2 and 4 are canonical thread counts
KmZeroLabels == {"sequential", "omp_naive", "omp_critical"}

KmZeroEntries ==
    { [dataset_size_MB |-> 16, numCoords |-> 2, numClusters |-> 4,
       numThreads |-> t, per_loop_time_s |-> tm] : t \in {None, 2, 4}, tm \in {0, 1} }

ConfigKeyOf(e) == <<e.dataset_size_MB, e.numCoords, e.numClusters>>

MetaOf(e) == [dataset_size_MB |-> e.dataset_size_MB, numCoords |-> e.numCoords,
              numClusters |-> e.numClusters]

Canonical == <<1, 2, 4, 8, 16, 32, 64>>

KmInit ==
    /\ entries_seen = <<>>
    /\ data = EmptyDict
    /\ data_order = <<>>
    /\ raw_entries = EmptyDict
    /\ metadata = EmptyDict
    /\ sequential_data = EmptyDict
    /\ km_pc = "aggregate"
    /\ km_i = 1
    /\ km_plots = EmptyDict
    /\ km_warned = {}

\* line 67: sequential_data[config_key] = time
StoreSequential(sd, key, time) == Put(sd, key, time)

\* a mutant of lines 79-82: the later time replaces the earlier one
StoreTimeLastWins(thread_map, t, time) == Put(thread_map, t, time)

\* lines 79-82: keep the minimum of the times seen for a thread count
StoreTime(thread_map, t, time) ==
    IF t \in DOMAIN thread_map
    THEN [thread_map EXCEPT ![t] = Min2(thread_map[t], time)]
    ELSE Put(thread_map, t, time)

\* lines 68-74 and 85-91: metadata is set by the first entry of a label
StoreMeta(md, label, e) == IF label \in DOMAIN md THEN md ELSE Put(md, label, MetaOf(e))

\* one iteration of the loop over a file's entries (lines 54-91)
AggregateEntry(label, e) ==
    LET t == e.numThreads
        time == e.per_loop_time_s
        config_key == ConfigKeyOf(e)
    IN  /\ km_pc = "aggregate"
        /\ Len(entries_seen) < MaxEntries
        /\ entries_seen' = Append(entries_seen, <<label, e>>)
        /\ IF IsSequentialLabel(label) /\ time # None /\ t = None
           THEN /\ sequential_data' = StoreSequential(sequential_data, config_key, time)
                /\ metadata' = StoreMeta(metadata, label, e)
                /\ UNCHANGED <<data, data_order, raw_entries>>
           ELSE IF t = None \/ time = None
           THEN UNCHANGED <<data, data_order, raw_entries, metadata, sequential_data>>
           ELSE /\ data' = Put(data, label,
                               StoreTime(IF label \in DOMAIN data THEN data[label] ELSE EmptyDict,
                                         t, time))
                /\ data_order' = IF label \in DOMAIN data THEN data_order
                                 ELSE Append(data_order, label)
                /\ raw_entries' = Put(raw_entries, label,
                                      Append(IF label \in DOMAIN raw_entries
                                             THEN raw_entries[label] ELSE <<>>, <<t, time>>))
                /\ metadata' = StoreMeta(metadata, label, e)
                /\ UNCHANGED sequential_data
        /\ UNCHANGED <<km_pc, km_i, km_plots, km_warned>>

\* aggregate_runs returns; main calls plot_per_implementation
StartPlot ==
    /\ km_pc = "aggregate"
    /\ km_pc' = "plot"
    /\ km_i' = 1
    /\ UNCHANGED <<entries_seen, data, data_order, raw_entries, metadata,
                   sequential_data, km_plots, km_warned>>

\* lines 105-111: the configuration key of a label, from its metadata
LabelConfigKey(label) ==
    IF label \in DOMAIN metadata
    THEN <<metadata[label].dataset_size_MB, metadata[label].numCoords,
           metadata[label].numClusters>>
    ELSE <<None, None, None>>

\* lines 120-128: the bars of one label; threads is without its leading 'seq',
\* times[1] is the sequential time and times[k + 1] the time at threads[k]
SeriesOf(thread_map, seq_time) ==
    LET present == SelectSeq(Canonical, LAMBDA t : t \in DOMAIN thread_map)
        times == <<seq_time>> \o [k \in 1..Len(present) |-> thread_map[present[k]]]
    IN  [threads |-> present,
         times |-> times,
         speedups |-> [k \in 1..Len(times) |-> Ratio(seq_time, times[k])]]

\* one iteration of the loop over data.items() (lines 100-176)
PlotLabel ==
    /\ km_pc = "plot"
    /\ km_i <= Len(data_order)
    /\ LET label == data_order[km_i]
           thread_map == data[label]
           seq_time == Get(sequential_data, LabelConfigKey(label))
           series == SeriesOf(thread_map, seq_time)
       IN  IF seq_time = None
           THEN /\ km_warned' = km_warned \cup {label}
                /\ km_i' = km_i + 1
                /\ UNCHANGED <<km_plots, km_pc>>
           ELSE IF Len(series.times) <= 1
           THEN /\ km_i' = km_i + 1
                /\ UNCHANGED <<km_plots, km_warned, km_pc>>
           ELSE IF \E k \in 1..Len(series.times) : series.times[k] = 0
           THEN \* line 128: baseline / t raises ZeroDivisionError
                /\ km_pc' = "raised"
                /\ UNCHANGED <<km_plots, km_warned, km_i>>
           ELSE /\ km_plots' = Put(km_plots, label, series)
                /\ km_i' = km_i + 1
                /\ UNCHANGED <<km_warned, km_pc>>
    /\ UNCHANGED <<entries_seen, data, data_order, raw_entries, metadata, sequential_data>>

\* the loop over data.items() is exhausted: plot_per_implementation returns
PlotReturn ==
    /\ km_pc = "plot"
    /\ km_i > Len(data_order)
    /\ km_pc' = "done"
    /\ UNCHANGED <<entries_seen, data, data_order, raw_entries, metadata,
                   sequential_data, km_i, km_plots, km_warned>>

(***************************************************************************)
(* lab2/FW/plot_recursive_fw.py                                            *)
(***************************************************************************)
VARIABLES
    fw_lines,   \* the lines of the file scanned so far (lines[0..i-1])
    cur_size,   \* parse_fw_recursive: the size of the last '-- SIZE --' header, or None
    fw_data,    \* parse_fw_recursive: size -> [serial, threads: nthreads -> time]
    fw_log      \* the assignments made at line 55: <<line index, size, nthreads, time>>

fwVars == <<fw_lines, cur_size, fw_data, fw_log>>

MaxFwLines == 4

MaxWindowLines == 8

\* range(i-1, max(i-6, -1), -1): the backward search stops before index i-6
LookbackStop == 6

FwSizes == {1, 2}

FwTimes == {1, 2}

FwThreadCounts == {1, 2}

\* a line of run_fw.out, by the pattern it matches: n is the matrix size (the
\* thread count K of an 'nthreads=K' line), val the time
FwLine(kind, n, val) == [kind |-> kind, n |-> n, val |-> val]

FwOther == FwLine("other", None, None)

FwLines ==
    { FwLine("size", n, None) : n \in FwSizes }
    \cup { FwLine("serial", n, v) : n \in FwSizes, v \in FwTimes }
    \cup { FwLine("fw_sr", n, v) : n \in FwSizes, v \in FwTimes }
    \cup { FwLine("nthreads", k, None) : k \in FwThreadCounts }
    \cup { FwOther }

\* the lines of the files that exercise the lookback window: one size, one time
FwWindowLines ==
    { FwLine("size", 1, None), FwLine("fw_sr", 1, 1), FwOther }
    \cup { FwLine("nthreads", k, None) : k \in FwThreadCounts }

FwInit ==
    /\ fw_lines = <<>>
    /\ cur_size = None
    /\ fw_data = EmptyDict
    /\ fw_log = <<>>

Max2(a, b) == IF a >= b THEN a ELSE b

\* lines 47-51: for j in range(from, stop, -1), lines[j] being lines[j + 1] here
RECURSIVE SearchBack(_, _, _)
SearchBack(lines, j, stop) ==
    IF j <= stop THEN None
    ELSE IF lines[j + 1].kind = "nthreads" THEN lines[j + 1].n
    ELSE SearchBack(lines, j - 1, stop)

\* a mutant of lines 46-51: the search reaches one line further back
FindNThreadsWider(lines, i) == SearchBack(lines, i - 1, Max2(i - (LookbackStop + 1), -1))

\* lines 46-51: the thread count for the timing line at index i
FindNThreads(lines, i) == SearchBack(lines, i - 1, Max2(i - LookbackStop, -1))

\* line 55: data[cur_size]["threads"][nthreads] = float(mt.group(2))
RecordThreadTime(d, nthreads, time) == [d EXCEPT !.threads = Put(@, nthreads, time)]

\* one iteration of the loop over the lines (lines 30-55); i is the line's index
ScanLine(ln) ==
    LET i == Len(fw_lines)
        lines == Append(fw_lines, ln)
        nthreads == FindNThreads(lines, i)
    IN  /\ fw_lines' = lines
        /\ IF ln.kind = "size"
           THEN /\ cur_size' = ln.n
                /\ fw_data' = Put(fw_data, ln.n, [serial |-> None, threads |-> EmptyDict])
                /\ UNCHANGED fw_log
           ELSE IF cur_size # None /\ ln.kind = "serial" /\ ln.n = cur_size
           THEN /\ fw_data' = [fw_data EXCEPT ![cur_size].serial = ln.val]
                /\ UNCHANGED <<cur_size, fw_log>>
           ELSE IF cur_size # None /\ ln.kind = "fw_sr" /\ ln.n = cur_size /\ nthreads # None
           THEN /\ fw_data' = [fw_data EXCEPT
                                  ![cur_size] = RecordThreadTime(@, nthreads, ln.val)]
                /\ fw_log' = Append(fw_log, <<i, cur_size, nthreads, ln.val>>)
                /\ UNCHANGED cur_size
           ELSE UNCHANGED <<cur_size, fw_data, fw_log>>

\* the scan of a results file, line by line
FwScan ==
    /\ Len(fw_lines) < MaxFwLines
    /\ \E ln \in FwLines : ScanLine(ln)

\* the scan of a results file whose lines are drawn from FwWindowLines
FwWindowScan ==
    /\ Len(fw_lines) < MaxWindowLines
    /\ \E ln \in FwWindowLines : ScanLine(ln)

(***************************************************************************)
(* lab2/conc_ll/plot_speedups.py and lab2/conc_ll/plots/plot_speedups.py:  *)
(* parse_conc_ll_results and merge_results                                 *)
(***************************************************************************)
VARIABLES
    ll_content,        \* the text of the results file read so far, as its tokens
    ll_pc,             \* "read" | "parsed" | "raised"
    serial_baselines,  \* parse_conc_ll_results: (size, percents) -> throughput
    ll_data,           \* parse_conc_ll_results: (size, percents) -> impl -> nthreads -> throughput
    acc_serial,        \* merge_results: the accumulated serial baselines
    acc_data,          \* merge_results: the accumulated parallel results
    ll_merged          \* the serial_add arguments merge_results was called with, in order

llVars == <<ll_content, ll_pc, serial_baselines, ll_data, acc_serial, acc_data, ll_merged>>

MaxTokens == 5

MaxFiles == 2

\* (size, (read, insert, delete) percents)
LlConfigs == {<<1024, <<100, 0, 0>>>>, <<1024, <<80, 10, 10>>>>}

NoConfig == <<None, <<None, None, None>>>>

LlThroughputs == {1, 2}

\* a piece of the text, by what the patterns see in it:
\*   "serial_hdr"  '--- SIZE = n - PERCENTS = a b c ---'
\*   "par_hdr"     '--- NTHREADS = k - SIZE = n - PERCENTS = a b c ---'
\*   "impl"        'x.name'
\*   "thr"         'Throughput(Kops/sec): v'
LlToken(kind, cfg, n, name, val) ==
    [kind |-> kind, cfg |-> cfg, n |-> n, name |-> name, val |-> val]

LlTokens ==
    { LlToken("serial_hdr", c, None, NoneStr, None) : c \in LlConfigs }
    \cup { LlToken("par_hdr", <<1024, <<100, 0, 0>>>>, 2, NoneStr, None),
           LlToken("impl", NoConfig, None, "cgl", None) }
    \cup { LlToken("thr", NoConfig, None, NoneStr, v) : v \in LlThroughputs }

\* the tokens of a file in which a Throughput line can carry a malformed number
LlTokensMalformed == LlTokens \cup {LlToken("thr", NoConfig, None, NoneStr, Malformed)}

LlInit ==
    /\ ll_content = <<>>
    /\ ll_pc = "read"
    /\ serial_baselines = EmptyDict
    /\ ll_data = EmptyDict
    /\ acc_serial = EmptyDict
    /\ acc_data = EmptyDict
    /\ ll_merged = <<>>

\* the position of the first token of a kind at or after p and before stop, or 0
RECURSIVE FirstOfKind(_, _, _, _)
FirstOfKind(content, kind, p, stop) ==
    IF p >= stop THEN 0
    ELSE IF content[p].kind = kind THEN p
    ELSE FirstOfKind(content, kind, p + 1, stop)

\* lines 13-14: re.findall(serial_pattern, content, re.DOTALL).  A match starts
\* at a serial header and runs (.*?, lazily, over line breaks and over any
\* header) to the first Throughput line after it; the search resumes behind it.
RECURSIVE SerialMatches(_, _)
SerialMatches(content, p) ==
    IF p > Len(content) THEN <<>>
    ELSE IF content[p].kind = "serial_hdr"
    THEN LET q == FirstOfKind(content, "thr", p + 1, Len(content) + 1)
         IN  IF q = 0 THEN <<>>
             ELSE <<[cfg |-> content[p].cfg, val |-> content[q].val]>>
                  \o SerialMatches(content, q + 1)
    ELSE SerialMatches(content, p + 1)

\* lines 21-22: if key not in serial_baselines: serial_baselines[key] = float(throughput)
StoreBaseline(sb, key, throughput) ==
    IF key \in DOMAIN sb THEN sb ELSE Put(sb, key, throughput)

\* lines 16-22: the loop over serial_matches
RECURSIVE StoreBaselines(_, _, _)
StoreBaselines(matches, k, sb) ==
    IF k > Len(matches) THEN sb
    ELSE StoreBaselines(matches, k + 1, StoreBaseline(sb, matches[k].cfg, matches[k].val))

\* lines 47-48: re.findall(impl_pattern, block_content, re.DOTALL) over the
\* tokens p..stop-1 of a block
RECURSIVE ImplMatches(_, _, _)
ImplMatches(content, p, stop) ==
    IF p >= stop THEN <<>>
    ELSE IF content[p].kind = "impl"
    THEN LET q == FirstOfKind(content, "thr", p + 1, stop)
         IN  IF q = 0 THEN <<>>
             ELSE <<[name |-> content[p].name, val |-> content[q].val]>>
                  \o ImplMatches(content, q + 1, stop)
    ELSE ImplMatches(content, p + 1, stop)

\* lines 53-57: data[key][impl_name][nthreads] = throughput
StoreResult(d, key, impl_name, nthreads, throughput) ==
    LET impls == IF key \in DOMAIN d THEN d[key] ELSE EmptyDict
        thr_map == IF impl_name \in DOMAIN impls THEN impls[impl_name] ELSE EmptyDict
    IN  Put(d, key, Put(impls, impl_name, Put(thr_map, nthreads, throughput)))

\* lines 50-57: the loop over a block's impl_matches
RECURSIVE StoreResults(_, _, _, _, _)
StoreResults(matches, k, d, key, nthreads) ==
    IF k > Len(matches) THEN d
    ELSE StoreResults(matches, k + 1,
                      StoreResult(d, key, matches[k].name, nthreads, matches[k].val),
                      key, nthreads)

\* lines 27-57: re.split(header_pattern, content) and the loop over its parts:
\* the block of the parallel header at p runs to the next parallel header
RECURSIVE ParseBlocks(_, _, _)
ParseBlocks(content, p, d) ==
    LET h == FirstOfKind(content, "par_hdr", p, Len(content) + 1)
    IN  IF h = 0 THEN d
        ELSE LET next == FirstOfKind(content, "par_hdr", h + 1, Len(content) + 1)
                 stop == IF next = 0 THEN Len(content) + 1 ELSE next
             IN  ParseBlocks(content, stop,
                     StoreResults(ImplMatches(content, h + 1, stop), 1, d,
                                  content[h].cfg, content[h].n))

\* open(filename).read(), a token at a time
ReadToken(tok) ==
    /\ ll_pc = "read"
    /\ Len(ll_merged) < MaxFiles
    /\ Len(ll_content) < MaxTokens
    /\ ll_content' = Append(ll_content, tok)
    /\ UNCHANGED <<ll_pc, serial_baselines, ll_data, acc_serial, acc_data, ll_merged>>

\* line 22: float(throughput) raises ValueError on the first serial match with
\* a malformed number whose key is not yet in serial_baselines
RECURSIVE BaselineRaises(_, _, _)
BaselineRaises(matches, k, sb) ==
    IF k > Len(matches) THEN FALSE
    ELSE IF matches[k].cfg \in DOMAIN sb THEN BaselineRaises(matches, k + 1, sb)
    ELSE IF matches[k].val = Malformed THEN TRUE
    ELSE BaselineRaises(matches, k + 1, Put(sb, matches[k].cfg, matches[k].val))

\* line 51: float(throughput) raises ValueError on an implementation match of
\* some block with a malformed number
RECURSIVE ResultRaises(_, _)
ResultRaises(content, p) ==
    LET h == FirstOfKind(content, "par_hdr", p, Len(content) + 1)
    IN  IF h = 0 THEN FALSE
        ELSE LET next == FirstOfKind(content, "par_hdr", h + 1, Len(content) + 1)
                 stop == IF next = 0 THEN Len(content) + 1 ELSE next
                 matches == ImplMatches(content, h + 1, stop)
             IN  \/ \E k \in 1..Len(matches) : matches[k].val = Malformed
                 \/ ResultRaises(content, stop)

\* parse_conc_ll_results on the text read (lines 11-59)
ParseConcLL ==
    /\ ll_pc = "read"
    /\ Len(ll_merged) < MaxFiles
    /\ IF \/ BaselineRaises(SerialMatches(ll_content, 1), 1, EmptyDict)
          \/ ResultRaises(ll_content, 1)
       THEN /\ ll_pc' = "raised"
            /\ UNCHANGED <<serial_baselines, ll_data>>
       ELSE /\ serial_baselines' = StoreBaselines(SerialMatches(ll_content, 1), 1, EmptyDict)
            /\ ll_data' = ParseBlocks(ll_content, 1, EmptyDict)
            /\ ll_pc' = "parsed"
    /\ UNCHANGED <<ll_content, acc_serial, acc_data, ll_merged>>

\* plots/plot_speedups.py lines 50-51: acc_serial.setdefault(k, v)
MergeSerial(acc, serial_add) ==
    [k \in DOMAIN acc \cup DOMAIN serial_add |->
        IF k \in DOMAIN acc THEN acc[k] ELSE serial_add[k]]

\* dict.update: the keys of the added dict replace
Update(d, add) == [k \in DOMAIN d \cup DOMAIN add |-> IF k \in DOMAIN add THEN add[k] ELSE d[k]]

\* plots/plot_speedups.py lines 53-57
MergeData(acc, data_add) ==
    [cfg \in DOMAIN acc \cup DOMAIN data_add |->
        IF cfg \notin DOMAIN data_add THEN acc[cfg]
        ELSE LET old == IF cfg \in DOMAIN acc THEN acc[cfg] ELSE EmptyDict
             IN  [impl \in DOMAIN old \cup DOMAIN data_add[cfg] |->
                    IF impl \notin DOMAIN data_add[cfg] THEN old[impl]
                    ELSE Update(IF impl \in DOMAIN old THEN old[impl] ELSE EmptyDict,
                                data_add[cfg][impl])]]

\* merge_results(acc_serial, acc_data, serial_baselines, data) on the file just
\* parsed; the next file is read afterwards
MergeResults ==
    /\ ll_pc = "parsed"
    /\ acc_serial' = MergeSerial(acc_serial, serial_baselines)
    /\ acc_data' = MergeData(acc_data, ll_data)
    /\ ll_merged' = Append(ll_merged, serial_baselines)
    /\ ll_content' = <<>>
    /\ ll_pc' = "read"
    /\ UNCHANGED <<serial_baselines, ll_data>>

(***************************************************************************)
(* lab2/conc_ll/plot_speedups.py: plot_speedup and print_summary, as main  *)
(* calls them on a parse result                                            *)
(***************************************************************************)
VARIABLES
    pl_serial,   \* the serial_baselines argument
    pl_data,     \* the data argument: config -> impl -> nthreads -> throughput
    pl_n,        \* the number of matches stored into the two dicts
    pl_pc,       \* "build" | "plot" | "summary" | "done" | "raised"
    pl_i,        \* index of the next configuration in sorted(data.items())
    pl_series,   \* plot_speedup: config -> impl -> the (threads, speedups) points plotted
    pl_warned,   \* plot_speedup: the configurations warned about (no serial baseline)
    pl_printed   \* print_summary: config -> impl -> nthreads -> the speedup printed

plVars == <<pl_serial, pl_data, pl_n, pl_pc, pl_i, pl_series, pl_warned, pl_printed>>

MaxMatches == 4

LlImpls == <<"cgl", "fgl">>

LlThreadCounts == {1, 2}

\* the serial throughputs a file can report: [\d.]+ matches 0.00 too
LlSerialThroughputs == {0, 1, 2}

PlInit ==
    /\ pl_serial = EmptyDict
    /\ pl_data = EmptyDict
    /\ pl_n = 0
    /\ pl_pc = "build"
    /\ pl_i = 1
    /\ pl_series = EmptyDict
    /\ pl_warned = {}
    /\ pl_printed = EmptyDict

\* parse_conc_ll_results stores one serial match (lines 17-22)
BuildBaseline(key, throughput) ==
    /\ pl_pc = "build"
    /\ pl_n < MaxMatches
    /\ pl_serial' = StoreBaseline(pl_serial, key, throughput)
    /\ pl_n' = pl_n + 1
    /\ UNCHANGED <<pl_data, pl_pc, pl_i, pl_series, pl_warned, pl_printed>>

\* parse_conc_ll_results stores one implementation match of a block (lines 50-57)
BuildResult(key, impl_name, nthreads, throughput) ==
    /\ pl_pc = "build"
    /\ pl_n < MaxMatches
    /\ pl_data' = StoreResult(pl_data, key, impl_name, nthreads, throughput)
    /\ pl_n' = pl_n + 1
    /\ UNCHANGED <<pl_serial, pl_pc, pl_i, pl_series, pl_warned, pl_printed>>

\* the order of Python's tuples (size, (read, insert, delete))
CfgLess(a, b) ==
    LET fa == <<a[1]>> \o a[2]
        fb == <<b[1]>> \o b[2]
    IN  \E k \in 1..4 : fa[k] < fb[k] /\ \A j \in 1..(k - 1) : fa[j] = fb[j]

\* sorted(data.items()): the configurations in ascending order
RECURSIVE SortedConfigs(_)
SortedConfigs(S) ==
    IF S = {} THEN <<>>
    ELSE LET m == CHOOSE x \in S : \A y \in S : x = y \/ CfgLess(x, y)
         IN  <<m>> \o SortedConfigs(S \ {m})

\* sorted(...) of a set of thread counts
RECURSIVE SortedInts(_)
SortedInts(S) ==
    IF S = {} THEN <<>> ELSE <<SetMin(S)>> \o SortedInts(S \ {SetMin(S)})

\* lines 91-95: all_threads = sorted(set(threads of every implementation))
AllThreads(impl_data) ==
    SortedInts(UNION { DOMAIN impl_data[impl] : impl \in DOMAIN impl_data })

\* sorted(impl_data.items()) / sorted(impl_data.keys())
SortedImpls(impl_data) == SelectSeq(LlImpls, LAMBDA impl : impl \in DOMAIN impl_data)

\* a mutant of lines 103-108: a missing thread count is plotted as 0
SeriesOfImplZeroFilled(all_threads, results, serial_throughput) ==
    [k \in 1..Len(all_threads) |->
        <<all_threads[k],
          Ratio(IF all_threads[k] \in DOMAIN results THEN results[all_threads[k]] ELSE 0,
                serial_throughput)>>]

\* lines 100-108: the points of one implementation
SeriesOfImpl(all_threads, results, serial_throughput) ==
    LET threads == SelectSeq(all_threads, LAMBDA t : t \in DOMAIN results)
    IN  [k \in 1..Len(threads) |->
            <<threads[k], Ratio(results[threads[k]], serial_throughput)>>]

\* main: parsing is over, plot_speedup is called
PlStartPlot ==
    /\ pl_pc = "build"
    /\ pl_pc' = "plot"
    /\ pl_i' = 1
    /\ UNCHANGED <<pl_serial, pl_data, pl_n, pl_series, pl_warned, pl_printed>>

\* one iteration of plot_speedup's loop over sorted(data.items()) (lines 76-144)
PlotConfig ==
    /\ pl_pc = "plot"
    /\ pl_i <= Len(SortedConfigs(DOMAIN pl_data))
    /\ LET config_key == SortedConfigs(DOMAIN pl_data)[pl_i]
           impl_data == pl_data[config_key]
           all_threads == AllThreads(impl_data)
       IN  IF config_key \notin DOMAIN pl_serial
           THEN /\ pl_warned' = pl_warned \cup {config_key}
                /\ pl_i' = pl_i + 1
                /\ UNCHANGED <<pl_series, pl_pc>>
           ELSE IF pl_serial[config_key] = 0
           THEN /\ pl_pc' = "raised"
                /\ UNCHANGED <<pl_series, pl_warned, pl_i>>
           ELSE /\ pl_series' = Put(pl_series, config_key,
                     [impl \in DOMAIN impl_data |->
                         SeriesOfImpl(all_threads, impl_data[impl], pl_serial[config_key])])
                /\ pl_i' = pl_i + 1
                /\ UNCHANGED <<pl_warned, pl_pc>>
    /\ UNCHANGED <<pl_serial, pl_data, pl_n, pl_printed>>

\* plot_speedup returns; main calls print_summary
PlStartSummary ==
    /\ pl_pc = "plot"
    /\ pl_i > Len(SortedConfigs(DOMAIN pl_data))
    /\ pl_pc' = "summary"
    /\ pl_i' = 1
    /\ UNCHANGED <<pl_serial, pl_data, pl_n, pl_series, pl_warned, pl_printed>>

\* line 164: serial_baselines.get(config_key, 0)
SerialThroughputOrZero(sb, config_key) == IF config_key \in DOMAIN sb THEN sb[config_key] ELSE 0

\* one iteration of print_summary's loop over sorted(data.items()) (lines 161-195);
\* line 191 divides by serial_throughput for the first thread count an
\* implementation has
SummaryConfig ==
    /\ pl_pc = "summary"
    /\ pl_i <= Len(SortedConfigs(DOMAIN pl_data))
    /\ LET config_key == SortedConfigs(DOMAIN pl_data)[pl_i]
           impl_data == pl_data[config_key]
           all_threads == AllThreads(impl_data)
           serial_throughput == SerialThroughputOrZero(pl_serial, config_key)
           divides == \E k \in 1..Len(SortedImpls(impl_data)) :
                         \E j \in 1..Len(all_threads) :
                             all_threads[j] \in DOMAIN impl_data[SortedImpls(impl_data)[k]]
       IN  IF divides /\ serial_throughput = 0
           THEN /\ pl_pc' = "raised"
                /\ UNCHANGED <<pl_printed, pl_i>>
           ELSE /\ pl_printed' = Put(pl_printed, config_key,
                     [impl \in DOMAIN impl_data |->
                         [t \in DOMAIN impl_data[impl] |->
                             Ratio(impl_data[impl][t], serial_throughput)]])
                /\ pl_i' = pl_i + 1
                /\ UNCHANGED pl_pc
    /\ UNCHANGED <<pl_serial, pl_data, pl_n, pl_series, pl_warned>>

\* print_summary returns; main prints "Done!"
PlDone ==
    /\ pl_pc = "summary"
    /\ pl_i > Len(SortedConfigs(DOMAIN pl_data))
    /\ pl_pc' = "done"
    /\ UNCHANGED <<pl_serial, pl_data, pl_n, pl_i, pl_series, pl_warned, pl_printed>>

(***************************************************************************)
(* lab2/kmeans_locks/analyze_performance.py                                *)
(***************************************************************************)
VARIABLES
    lk_pc,          \* "seq" | "parse" | "plot1" | "plot2" | "done" | "exit"
    seq_time,       \* parse_sequential(seq_file)
    all_data,       \* name -> parse_parallel(file), for the files with results
    lk_order,       \* insertion order of all_data's keys
    lk_k,           \* index in lock_implementations of the next file to parse
    thread_counts,  \* the thread counts of the first implementation, sorted
    lk_times,       \* plot 1: name -> the bars drawn, <<thread count, time>>
    lk_speedups     \* plot 2: name -> the bars drawn, <<thread count, speedup>>

lkVars == <<lk_pc, seq_time, all_data, lk_order, lk_k, thread_counts, lk_times, lk_speedups>>

MaxLocks == 2

\* lines 43-53, without 'Sequential', which the parsing loop skips
LockNames == <<"Naive", "Critical", "Array Lock", "CLH Lock", "TAS Lock", "TTAS Lock",
               "Mutex Lock", "Spin Lock">>

LockThreads == {1, 2}

LockTimes == {1, 2}

\* the dicts parse_parallel can return: {} for a missing or empty file
LockResults == UNION { [T -> LockTimes] : T \in SUBSET LockThreads }

LkInit ==
    /\ lk_pc = "seq"
    /\ seq_time = None
    /\ all_data = EmptyDict
    /\ lk_order = <<>>
    /\ lk_k = 1
    /\ thread_counts = <<>>
    /\ lk_times = EmptyDict
    /\ lk_speedups = EmptyDict

\* lines 56-59: seq_time = parse_sequential(seq_file); None ends the script
ParseSequential(time) ==
    /\ lk_pc = "seq"
    /\ seq_time' = time
    /\ lk_pc' = IF time = None THEN "exit" ELSE "parse"
    /\ UNCHANGED <<all_data, lk_order, lk_k, thread_counts, lk_times, lk_speedups>>

\* one iteration of the loop over lock_implementations (lines 65-73)
ParseLock(results) ==
    /\ lk_pc = "parse"
    /\ lk_k <= MaxLocks
    /\ IF results # EmptyDict
       THEN /\ all_data' = Put(all_data, LockNames[lk_k], results)
            /\ lk_order' = Append(lk_order, LockNames[lk_k])
       ELSE UNCHANGED <<all_data, lk_order>>
    /\ lk_k' = lk_k + 1
    /\ UNCHANGED <<lk_pc, seq_time, thread_counts, lk_times, lk_speedups>>

\* lines 75-80: no data ends the script; else the axis is the first implementation's
ThreadAxis ==
    /\ lk_pc = "parse"
    /\ lk_k > MaxLocks
    /\ IF all_data = EmptyDict
       THEN /\ lk_pc' = "exit"
            /\ UNCHANGED thread_counts
       ELSE /\ thread_counts' = SortedInts(DOMAIN all_data[lk_order[1]])
            /\ lk_pc' = "plot1"
    /\ UNCHANGED <<seq_time, all_data, lk_order, lk_k, lk_times, lk_speedups>>

\* line 105: times = [data.get(t, 0) for t in thread_counts]
TimeBars(results, axis) ==
    [k \in 1..Len(axis) |->
        <<axis[k], IF axis[k] \in DOMAIN results THEN results[axis[k]] ELSE 0>>]

\* line 136: speedups = [seq_time / data.get(t, seq_time) for t in thread_counts]
SpeedupBars(results, axis, seq) ==
    [k \in 1..Len(axis) |->
        <<axis[k], Ratio(seq, IF axis[k] \in DOMAIN results THEN results[axis[k]] ELSE seq)>>]

\* plot 1: the loop over all_data.items() (lines 104-108)
PlotTimes ==
    /\ lk_pc = "plot1"
    /\ lk_times' = [name \in DOMAIN all_data |-> TimeBars(all_data[name], thread_counts)]
    /\ lk_pc' = "plot2"
    /\ UNCHANGED <<seq_time, all_data, lk_order, lk_k, thread_counts, lk_speedups>>

\* plot 2: the loop over all_data.items() (lines 135-139)
PlotSpeedups ==
    /\ lk_pc = "plot2"
    /\ lk_speedups' = [name \in DOMAIN all_data |->
                          SpeedupBars(all_data[name], thread_counts, seq_time)]
    /\ lk_pc' = "done"
    /\ UNCHANGED <<seq_time, all_data, lk_order, lk_k, thread_counts, lk_times>>

(***************************************************************************)
(* lab2/conc_ll/plots/plot.py: the line scanner                            *)
(***************************************************************************)
VARIABLES
    pp_lines,      \* the lines of INPUT_FILE read so far
    pp_pc,         \* "scan" | "raised"
    current_size,  \* the size of the last header line, or None
    current_perc,  \* the percents of the last header line, or None
    current_impl,  \* the name on the last implementation line, or "None"
    pp_data,       \* data[(size, percents)][impl][nthreads] = throughput
    pp_serial      \* serial[(size, percents)][impl] = throughput at nthreads == 1

ppVars == <<pp_lines, pp_pc, current_size, current_perc, current_impl, pp_data, pp_serial>>

MaxPlotLines == 4

NoPerc == <<None, None, None>>

\* a line of the file, by the first pattern of the loop it matches
PpLine(kind, size, perc, name, n, val) ==
    [kind |-> kind, size |-> size, perc |-> perc, name |-> name, n |-> n, val |-> val]

PpSizes == {0, 1024}

PpLines ==
    { PpLine("impl", None, NoPerc, "x.cgl", None, None),
      PpLine("other", None, NoPerc, NoneStr, None, None) }
    \cup { PpLine("header", sz, <<100, 0, 0>>, NoneStr, None, None) : sz \in PpSizes }
    \cup { PpLine("result", None, NoPerc, NoneStr, n, v) :
             n \in {1, 2}, v \in {1, 2, Malformed} }

PpInit ==
    /\ pp_lines = <<>>
    /\ pp_pc = "scan"
    /\ current_size = None
    /\ current_perc = NoPerc
    /\ current_impl = NoneStr
    /\ pp_data = EmptyDict
    /\ pp_serial = EmptyDict

\* a mutant of line 46: the implementation is not asked for
HasContextWithoutImpl(impl, size, perc) == size # None /\ size # 0 /\ perc # NoPerc

\* line 46: current_impl and current_size and current_perc, by Python's truth
\* values (None and 0 are false, a non-empty tuple or string is true)
HasContext(impl, size, perc) ==
    impl # NoneStr /\ size # None /\ size # 0 /\ perc # NoPerc

\* lines 52 and 55 on the defaultdicts
StoreSerial(d, key, impl, throughput) ==
    Put(d, key, Put(IF key \in DOMAIN d THEN d[key] ELSE EmptyDict, impl, throughput))

\* one iteration of the loop over the file's lines (lines 28-55)
PpScanLine(line) ==
    /\ pp_pc = "scan"
    /\ Len(pp_lines) < MaxPlotLines
    /\ pp_lines' = Append(pp_lines, line)
    /\ IF line.kind = "impl"
       THEN /\ current_impl' = line.name
            /\ UNCHANGED <<current_size, current_perc, pp_data, pp_serial, pp_pc>>
       ELSE IF line.kind = "header"
       THEN /\ current_size' = line.size
            /\ current_perc' = line.perc
            /\ UNCHANGED <<current_impl, pp_data, pp_serial, pp_pc>>
       ELSE IF line.kind = "result" /\ HasContext(current_impl, current_size, current_perc)
       THEN IF line.val = Malformed
            THEN /\ pp_pc' = "raised"
                 /\ UNCHANGED <<current_size, current_perc, current_impl, pp_data, pp_serial>>
            ELSE /\ pp_data' = StoreResult(pp_data, <<current_size, current_perc>>,
                                           current_impl, line.n, line.val)
                 /\ pp_serial' = IF line.n = 1
                                 THEN StoreSerial(pp_serial, <<current_size, current_perc>>,
                                                  current_impl, line.val)
                                 ELSE pp_serial
                 /\ UNCHANGED <<current_size, current_perc, current_impl, pp_pc>>
       ELSE UNCHANGED <<current_size, current_perc, current_impl, pp_data, pp_serial, pp_pc>>

(***************************************************************************)
(* lab4/heat_transfer/plot_mpi_performance.py: parse_serial_results and    *)
(* parse_mpi_results over the module-level serial_data and mpi_data        *)
(***************************************************************************)
VARIABLES
    serial_data,        \* {method: {size: time}}
    mpi_data,           \* {method: {num_procs: {size: metrics}}}
    ht_pc,              \* "idle" | "scan": a parse_mpi_results call is in its loop
    ht_method,          \* the method argument of the parse_mpi_results call under way
    ht_lines,           \* the lines that call has scanned so far
    current_num_procs,  \* parse_mpi_results: the count of the last 'Num MPI Tasks' line
    ht_last,            \* the last whole call made: <<function, file, method>>
    ht_repeated         \* the parsers called twice in a row on a file with measurements

htVars == <<serial_data, mpi_data, ht_pc, ht_method, ht_lines, current_num_procs,
            ht_last, ht_repeated>>

MaxMpiLines == 5

MaxHeatFileLines == 2

\* the method names parse_mpi_results is called with
HtMethods == {"Jacobi", "Gauss-Seidel SOR"}

HtProcs == {1, 2}

HtSizes == {1, 2}

HtTimes == {1, 2}

\* (computation, communication, convergence, total) of a timing line
HtMetrics ==
    { [computation |-> 1, communication |-> 1, convergence |-> 0, total |-> 2],
      [computation |-> 2, communication |-> 1, convergence |-> 0, total |-> 3] }

NoMetrics == [computation |-> None, communication |-> None, convergence |-> None,
              total |-> None]

\* a line of an MPI results file, by the pattern of the loop that matches it:
\*   "tasks"   'Num MPI Tasks: n'
\*   "jacobi"  'Jacobi X n Y .. Px .. Py .. Iter .. ComputationTime .. TotalTime ..'
MpiLine(kind, n, metrics) == [kind |-> kind, n |-> n, metrics |-> metrics]

MpiOther == MpiLine("other", None, NoMetrics)

MpiLines ==
    { MpiLine("tasks", n, NoMetrics) : n \in HtProcs }
    \cup { MpiLine("jacobi", sz, m) : sz \in HtSizes, m \in HtMetrics }
    \cup { MpiOther }

\* a line of a serial results file: 'Jacobi X n Y .. Iter .. Time t' and its
\* GaussSeidelSOR and RedBlackSOR forms
SerialLine(kind, n, time) == [kind |-> kind, n |-> n, time |-> time]

SerialLines ==
    { SerialLine("Jacobi", 1, t) : t \in HtTimes }
    \cup { SerialLine("GaussSeidelSOR", 1, 1), SerialLine("other", None, None) }

\* the sequences over S of length at most n
SeqsUpTo(S, n) == UNION { [1..k -> S] : k \in 0..n }

\* the files the whole calls are made on; the MPI files hold one size
SerialFiles == SeqsUpTo(SerialLines, MaxHeatFileLines)

MpiFiles ==
    SeqsUpTo({ ln \in MpiLines : ln.kind # "jacobi" \/ ln.n = 1 } \ {MpiOther},
             MaxHeatFileLines)

NoFile == <<>>

HtInit ==
    /\ serial_data = EmptyDict
    /\ mpi_data = EmptyDict
    /\ ht_pc = "idle"
    /\ ht_method = NoneStr
    /\ ht_lines = <<>>
    /\ current_num_procs = None
    /\ ht_last = <<NoneStr, NoFile, NoneStr>>
    /\ ht_repeated = {}

\* a mutant of lines 28, 35, 42: the time is added to the one already stored
StoreSerialTimeAdded(sd, method, size, time) ==
    LET sizes == IF method \in DOMAIN sd THEN sd[method] ELSE EmptyDict
    IN  Put(sd, method,
            Put(sizes, size, IF size \in DOMAIN sizes THEN sizes[size] + time ELSE time))

\* lines 26-28, 33-35, 40-42: serial_data[method][int(size)] = float(time)
StoreSerialTime(sd, method, size, time) ==
    Put(sd, method, Put(IF method \in DOMAIN sd THEN sd[method] ELSE EmptyDict, size, time))

\* the loop over the re.findall matches of one pattern (lines 24-28, 31-35, 38-42)
RECURSIVE StoreSerialMatches(_, _, _, _, _)
StoreSerialMatches(content, k, kind, method, sd) ==
    IF k > Len(content) THEN sd
    ELSE StoreSerialMatches(content, k + 1, kind, method,
             IF content[k].kind = kind
             THEN StoreSerialTime(sd, method, content[k].n, content[k].time)
             ELSE sd)

\* parse_serial_results (lines 18-42): Jacobi, then Gauss-Seidel SOR, then Red-Black SOR
SerialResults(content, sd) ==
    StoreSerialMatches(content, 1, "RedBlackSOR", "Red-Black SOR",
        StoreSerialMatches(content, 1, "GaussSeidelSOR", "Gauss-Seidel SOR",
            StoreSerialMatches(content, 1, "Jacobi", "Jacobi", sd)))

\* a mutant of lines 53-56: the process count serves one timing line only
NumProcsAfterOneUse(procs, line) ==
    IF line.kind = "tasks" THEN line.n ELSE IF line.kind = "jacobi" THEN None ELSE procs

\* lines 53-56: current_num_procs after a line
NumProcsAfter(procs, line) == IF line.kind = "tasks" THEN line.n ELSE procs

\* lines 73-78: mpi_data[method][current_num_procs][size] = {...} on the defaultdicts
StoreMetrics(md, method, procs, size, metrics) ==
    LET by_procs == IF method \in DOMAIN md THEN md[method] ELSE EmptyDict
        by_size == IF procs \in DOMAIN by_procs THEN by_procs[procs] ELSE EmptyDict
    IN  Put(md, method, Put(by_procs, procs, Put(by_size, size, metrics)))

\* lines 59-78: mpi_data after a line; current_num_procs is false when None or 0
MpiDataAfter(md, method, procs, line) ==
    IF line.kind # "tasks" /\ method = "Jacobi" /\ line.kind = "jacobi"
       /\ procs # None /\ procs # 0
    THEN StoreMetrics(md, method, procs, line.n, line.metrics)
    ELSE md

\* the loop of parse_mpi_results over lines k.. (lines 51-78)
RECURSIVE MpiResults(_, _, _, _, _)
MpiResults(lines, k, procs, method, md) ==
    IF k > Len(lines) THEN md
    ELSE MpiResults(lines, k + 1, NumProcsAfter(procs, lines[k]), method,
                    MpiDataAfter(md, method, procs, lines[k]))

\* parse_mpi_results is entered: lines 46-49
MpiOpen(method) ==
    /\ ht_pc = "idle"
    /\ ht_lines = <<>>
    /\ ht_pc' = "scan"
    /\ ht_method' = method
    /\ current_num_procs' = None
    /\ UNCHANGED <<serial_data, mpi_data, ht_lines, ht_last, ht_repeated>>

\* one iteration of the loop over the file's lines (lines 51-78)
MpiScanLine(line) ==
    /\ ht_pc = "scan"
    /\ Len(ht_lines) < MaxMpiLines
    /\ ht_lines' = Append(ht_lines, line)
    /\ current_num_procs' = NumProcsAfter(current_num_procs, line)
    /\ mpi_data' = MpiDataAfter(mpi_data, ht_method, current_num_procs, line)
    /\ UNCHANGED <<serial_data, ht_pc, ht_method, ht_last, ht_repeated>>

\* a whole call parse_serial_results(filename) on a file with this content
CallParseSerial(content) ==
    /\ ht_pc = "idle"
    /\ serial_data' = SerialResults(content, serial_data)
    /\ ht_last' = <<"parse_serial_results", content, NoneStr>>
    /\ ht_repeated' = IF /\ ht_last = <<"parse_serial_results", content, NoneStr>>
                          /\ SerialResults(content, EmptyDict) # EmptyDict
                       THEN ht_repeated \cup {"parse_serial_results"} ELSE ht_repeated
    /\ UNCHANGED <<mpi_data, ht_pc, ht_method, ht_lines, current_num_procs>>

\* a whole call parse_mpi_results(filename, method) on a file with these lines
CallParseMpi(lines, method) ==
    /\ ht_pc = "idle"
    /\ mpi_data' = MpiResults(lines, 1, None, method, mpi_data)
    /\ ht_last' = <<"parse_mpi_results", lines, method>>
    /\ ht_repeated' = IF /\ ht_last = <<"parse_mpi_results", lines, method>>
                          /\ MpiResults(lines, 1, None, method, EmptyDict) # EmptyDict
                       THEN ht_repeated \cup {"parse_mpi_results"} ELSE ht_repeated
    /\ UNCHANGED <<serial_data, ht_pc, ht_method, ht_lines, current_num_procs>>

(***************************************************************************)
(* lab2/kmeans/diagram_generator/diagram_gen.py: parse_results             *)
(***************************************************************************)
VARIABLES
    dg_lines,    \* lines = f.readlines()
    dg_pc,       \* "open" | "loop" | "done"
    dg_i,        \* the index i of the outer while loop
    dg_results   \* results

dgVars == <<dg_lines, dg_pc, dg_i, dg_results>>

MaxDgLines == 4

\* a line of a kmeans results file, by the pattern that matches it:
\*   "header"   'dataset_size = .. MB numObjs = .. numCoords = .. numClusters = ..'
\*   "threads"  '(number of threads: n)'
\*   "timing"   'nloops = .. (total = ..s) (per loop = ..s)'
DgLine(kind, cfg, n, val) == [kind |-> kind, cfg |-> cfg, n |-> n, val |-> val]

NoKmConfig == <<None, None, None>>

DgLines ==
    { DgLine("header", c, None, None) : c \in KmConfigs }
    \cup { DgLine("threads", NoKmConfig, n, None) : n \in {2, 4} }
    \cup { DgLine("other", NoKmConfig, None, None) }
    \cup { DgLine("timing", NoKmConfig, None, v) : v \in {1, 2} }

DgFiles == SeqsUpTo(DgLines, MaxDgLines)

DgInit ==
    /\ dg_lines = <<>>
    /\ dg_pc = "open"
    /\ dg_i = 0
    /\ dg_results = <<>>

\* lines 28-37: the entry a header line opens
NewEntry(header) ==
    [dataset_size_MB |-> header.cfg[1], numCoords |-> header.cfg[2],
     numClusters |-> header.cfg[3], numThreads |-> None, per_loop_time_s |-> None]

\* a mutant of line 39: the inner scan starts at the header itself
InnerStartAtHeader(i) == i

\* line 39: j = i + 1
InnerStart(i) == i + 1

\* a mutant of lines 44-46: the first thread count seen after the header is kept
RECURSIVE ScanForwardFirstThreads(_, _, _)
ScanForwardFirstThreads(lines, j, entry) ==
    IF j >= Len(lines) THEN [entry |-> entry, j |-> j]
    ELSE IF lines[j + 1].kind = "header" THEN [entry |-> entry, j |-> j]
    ELSE IF lines[j + 1].kind = "threads"
    THEN ScanForwardFirstThreads(lines, j + 1,
             IF entry.numThreads = None THEN [entry EXCEPT !.numThreads = lines[j + 1].n]
             ELSE entry)
    ELSE IF lines[j + 1].kind = "timing"
    THEN [entry |-> [entry EXCEPT !.per_loop_time_s = lines[j + 1].val], j |-> j]
    ELSE ScanForwardFirstThreads(lines, j + 1, entry)

\* lines 40-54: the inner scan from index j (lines[j] being lines[j + 1] here);
\* the entry and the index it stops at
RECURSIVE ScanForward(_, _, _)
ScanForward(lines, j, entry) ==
    IF j >= Len(lines) THEN [entry |-> entry, j |-> j]
    ELSE IF lines[j + 1].kind = "header" THEN [entry |-> entry, j |-> j]
    ELSE IF lines[j + 1].kind = "threads"
    THEN ScanForward(lines, j + 1, [entry EXCEPT !.numThreads = lines[j + 1].n])
    ELSE IF lines[j + 1].kind = "timing"
    THEN [entry |-> [entry EXCEPT !.per_loop_time_s = lines[j + 1].val], j |-> j]
    ELSE ScanForward(lines, j + 1, entry)

\* lines 21-24: the file is read
DgOpen(lines) ==
    /\ dg_pc = "open"
    /\ dg_lines' = lines
    /\ dg_i' = 0
    /\ dg_pc' = "loop"
    /\ UNCHANGED dg_results

\* one iteration of the outer while loop (lines 25-59)
DgStep ==
    /\ dg_pc = "loop"
    /\ dg_i < Len(dg_lines)
    /\ IF dg_lines[dg_i + 1].kind = "header"
       THEN LET scan == ScanForward(dg_lines, InnerStart(dg_i), NewEntry(dg_lines[dg_i + 1]))
            IN  /\ dg_results' = Append(dg_results, scan.entry)
                /\ dg_i' = scan.j
       ELSE /\ dg_i' = dg_i + 1
            /\ UNCHANGED dg_results
    /\ UNCHANGED <<dg_lines, dg_pc>>

\* line 60: return results
DgReturn ==
    /\ dg_pc = "loop"
    /\ dg_i >= Len(dg_lines)
    /\ dg_pc' = "done"
    /\ UNCHANGED <<dg_lines, dg_i, dg_results>>

(***************************************************************************)
(* lab2/FW/plot_recursive_fw.py: make_plots on a parse result              *)
(***************************************************************************)
VARIABLES
    mk_data,      \* the dict make_plots is given: size -> [serial, threads]
    mk_n,         \* the number of assignments parse_fw_recursive made to build it
    mk_pc,        \* "build" | "plot" | "done"
    mk_i,         \* make_plots: index into sorted(data.items())
    mk_times,     \* size -> the bars of the time plot
    mk_speedups,  \* size -> the bars of the speedup plot
    mk_skipped    \* the sizes skipped with 'no serial time found'

mkVars == <<mk_data, mk_n, mk_pc, mk_i, mk_times, mk_speedups, mk_skipped>>

MaxFwStores == 4

\* float('nan') among the times
NaN == -3

\* float('nan') among the speedups
NaNRatio == <<0, 0>>

\* line 92: the speedup 1.0 of the 'seq' bar
One == <<1, 1>>

\* line 61
FwCanonical == <<1, 2, 4, 8, 16, 32, 64>>

\* the thread counts and times a parse result can hold; 3 is not canonical
MkThreadCounts == {1, 2, 3}

MkTimes == {0, 1, 2}

MkInit ==
    /\ mk_data = EmptyDict
    /\ mk_n = 0
    /\ mk_pc = "build"
    /\ mk_i = 1
    /\ mk_times = EmptyDict
    /\ mk_speedups = EmptyDict
    /\ mk_skipped = {}

\* parse_fw_recursive line 34: a '-- SIZE --' header
MkSize(size) ==
    /\ mk_pc = "build"
    /\ mk_n < MaxFwStores
    /\ mk_data' = Put(mk_data, size, [serial |-> None, threads |-> EmptyDict])
    /\ mk_n' = mk_n + 1
    /\ UNCHANGED <<mk_pc, mk_i, mk_times, mk_speedups, mk_skipped>>

\* parse_fw_recursive line 40: the serial time of the current size
MkSerial(size, time) ==
    /\ mk_pc = "build"
    /\ mk_n < MaxFwStores
    /\ size \in DOMAIN mk_data
    /\ mk_data' = [mk_data EXCEPT ![size].serial = time]
    /\ mk_n' = mk_n + 1
    /\ UNCHANGED <<mk_pc, mk_i, mk_times, mk_speedups, mk_skipped>>

\* parse_fw_recursive line 55: a thread time of the current size
MkThreadTime(size, nthreads, time) ==
    /\ mk_pc = "build"
    /\ mk_n < MaxFwStores
    /\ size \in DOMAIN mk_data
    /\ mk_data' = [mk_data EXCEPT ![size] = RecordThreadTime(@, nthreads, time)]
    /\ mk_n' = mk_n + 1
    /\ UNCHANGED <<mk_pc, mk_i, mk_times, mk_speedups, mk_skipped>>

\* main: make_plots(data) is called
MkStartPlots ==
    /\ mk_pc = "build"
    /\ mk_pc' = "plot"
    /\ mk_i' = 1
    /\ UNCHANGED <<mk_data, mk_n, mk_times, mk_speedups, mk_skipped>>

\* lines 72-74: times = [serial] + [threads_map.get(t, nan) for t in canonical]
TimesOf(serial, threads_map) ==
    <<serial>> \o [k \in 1..Len(FwCanonical) |->
                     IF FwCanonical[k] \in DOMAIN threads_map
                     THEN threads_map[FwCanonical[k]] ELSE NaN]

\* a mutant of line 95: the quotient is inverted
SpeedupAtInverted(serial, threads_map, t) ==
    IF t \in DOMAIN threads_map /\ threads_map[t] # 0 /\ serial # 0
    THEN Ratio(threads_map[t], serial) ELSE NaNRatio

\* lines 94-95: serial / val if val is not None and val != 0 else nan
SpeedupAt(serial, threads_map, t) ==
    IF t \in DOMAIN threads_map /\ threads_map[t] # 0
    THEN Ratio(serial, threads_map[t]) ELSE NaNRatio

\* lines 92-95: speedups = [1.0] + [... for t in canonical]
SpeedupsOf(serial, threads_map) ==
    <<One>> \o [k \in 1..Len(FwCanonical) |-> SpeedupAt(serial, threads_map, FwCanonical[k])]

\* one iteration of the loop over sorted(data.items()) (lines 62-108)
MkPlotSize ==
    /\ mk_pc = "plot"
    /\ mk_i <= Len(SortedInts(DOMAIN mk_data))
    /\ LET size == SortedInts(DOMAIN mk_data)[mk_i]
           serial == mk_data[size].serial
           threads_map == mk_data[size].threads
       IN  IF serial = None
           THEN /\ mk_skipped' = mk_skipped \cup {size}
                /\ UNCHANGED <<mk_times, mk_speedups>>
           ELSE /\ mk_times' = Put(mk_times, size, TimesOf(serial, threads_map))
                /\ mk_speedups' = Put(mk_speedups, size, SpeedupsOf(serial, threads_map))
                /\ UNCHANGED mk_skipped
    /\ mk_i' = mk_i + 1
    /\ UNCHANGED <<mk_data, mk_n, mk_pc>>

\* make_plots returns
MkDone ==
    /\ mk_pc = "plot"
    /\ mk_i > Len(SortedInts(DOMAIN mk_data))
    /\ mk_pc' = "done"
    /\ UNCHANGED <<mk_data, mk_n, mk_i, mk_times, mk_speedups, mk_skipped>>

(***************************************************************************)
(* lab3/plot_all_speedups.py: parse_results                                *)
(***************************************************************************)
VARIABLES
    g3_content,     \* the text of the results file read so far, as its sections
    g3_pc,          \* "read" | "parsed" | "raised"
    g3_seq_time,    \* seq_time
    g3_impl_data,   \* impl_data: implementation name -> list of [bs, time]
    g3_num_coords   \* num_coords

g3Vars == <<g3_content, g3_pc, g3_seq_time, g3_impl_data, g3_num_coords>>

MaxSections == 3

\* a piece of the text between two tilde separators, by what the patterns find in it:
\*   seq     'Sequential Kmeans' occurs (in the header, before the section's time)
\*   word    'block_size' occurs
\*   bs      the number of 'block_size = n', or None when the pattern has no match
\*   time    the number of the first 't_loop_avg = v ms', Malformed when [\d.]+
\*           matched no number, None when the pattern has no match
\*   impl    the name in the '|---name Kmeans---|' header, or "None"
\*   coords  the number of 'numCoords = n', or None
Section(seq, word, bs, time, impl, coords) ==
    [seq |-> seq, word |-> word, bs |-> bs, time |-> time, impl |-> impl, coords |-> coords]

Sections ==
    { Section(TRUE, FALSE, None, t, NoneStr, None) : t \in {None, 10, Malformed} }
    \cup { Section(FALSE, TRUE, bs, t, impl, None) :
             bs \in {None, 32}, t \in {None, 1, Malformed}, impl \in {NoneStr, "Naive GPU"} }
    \cup { Section(FALSE, TRUE, 64, 2, "Shared GPU", 2),
           Section(FALSE, FALSE, None, None, NoneStr, None) }

G3Init ==
    /\ g3_content = <<>>
    /\ g3_pc = "read"
    /\ g3_seq_time = None
    /\ g3_impl_data = EmptyDict
    /\ g3_num_coords = None

\* the first index at or after p of a section with a t_loop_avg match, or 0
RECURSIVE FirstTimeFrom(_, _)
FirstTimeFrom(content, p) ==
    IF p > Len(content) THEN 0
    ELSE IF content[p].time # None THEN p
    ELSE FirstTimeFrom(content, p + 1)

\* line 18: re.search(r'Sequential Kmeans.*?t_loop_avg = ([\d.]+) ms', content, DOTALL):
\* from the first 'Sequential Kmeans', lazily and over separators, to the next
\* t_loop_avg; the text captured, or None without a match
SeqSection(content) ==
    LET seqs == { p \in 1..Len(content) : content[p].seq }
        q == IF seqs = {} THEN 0 ELSE FirstTimeFrom(content, SetMin(seqs))
    IN  IF q = 0 THEN None ELSE content[q].time

\* lines 22-23: the first 'numCoords = n' of the text, else 0
NumCoords(content) ==
    LET withc == { p \in 1..Len(content) : content[p].coords # None }
    IN  IF withc = {} THEN 0 ELSE content[SetMin(withc)].coords

\* lines 30-53: the loop over the sections from index k
RECURSIVE ImplData(_, _, _)
ImplData(content, k, d) ==
    IF k > Len(content) THEN d
    ELSE LET sec == content[k]
         IN  IF ~sec.word THEN ImplData(content, k + 1, d)
             ELSE IF sec.bs = None \/ sec.time = None
             THEN ImplData(content, k + 1, d)   \* AttributeError: None has no group
             ELSE IF sec.time = Malformed
             THEN ImplData(content, k + 1, d)   \* ValueError in float()
             ELSE IF sec.impl = NoneStr
             THEN ImplData(content, k + 1, d)   \* line 40: no implementation header
             ELSE ImplData(content, k + 1,
                      Put(d, sec.impl,
                          Append(IF sec.impl \in DOMAIN d THEN d[sec.impl] ELSE <<>>,
                                 [bs |-> sec.bs, time |-> sec.time])))

\* open(filename).read(), a section at a time
ReadSection(sec) ==
    /\ g3_pc = "read"
    /\ Len(g3_content) < MaxSections
    /\ g3_content' = Append(g3_content, sec)
    /\ UNCHANGED <<g3_pc, g3_seq_time, g3_impl_data, g3_num_coords>>

\* parse_results on the text read (lines 14-55); float() at line 19 is outside
\* the try block
ParseGpuResults ==
    /\ g3_pc = "read"
    /\ IF SeqSection(g3_content) = Malformed
       THEN /\ g3_pc' = "raised"
            /\ UNCHANGED <<g3_seq_time, g3_impl_data, g3_num_coords>>
       ELSE /\ g3_seq_time' = IF SeqSection(g3_content) = None THEN 0
                              ELSE SeqSection(g3_content)
            /\ g3_num_coords' = NumCoords(g3_content)
            /\ g3_impl_data' = ImplData(g3_content, 1, EmptyDict)
            /\ g3_pc' = "parsed"
    /\ UNCHANGED g3_content

(***************************************************************************)
(* lab2/conc_ll/plots/plot_speedups.py: merge_results applied to the parse *)
(* results of two files, in both orders, from empty accumulators           *)
(***************************************************************************)
VARIABLES
    mo_results,   \* the parse results of files A and B: <<[serial, data], [serial, data]>>
    mo_n,         \* the number of matches stored into the parse results
    mo_pc,        \* "build" | "merge" | "done"
    mo_k,         \* the number of merge_results calls made in each order
    mo_ab,        \* [serial, data]: the accumulators merged in the order A, B
    mo_ba         \* [serial, data]: the accumulators merged in the order B, A

moVars == <<mo_results, mo_n, mo_pc, mo_k, mo_ab, mo_ba>>

MaxMergeStores == 3

NFiles == 2

\* acc_serial = {}, acc_data = {}
EmptyAcc == [serial |-> EmptyDict, data |-> EmptyDict]

MoInit ==
    /\ mo_results = [f \in 1..NFiles |-> EmptyAcc]
    /\ mo_n = 0
    /\ mo_pc = "build"
    /\ mo_k = 0
    /\ mo_ab = EmptyAcc
    /\ mo_ba = EmptyAcc

\* parse_conc_ll_results of file f stores a serial baseline (lines 21-22)
MoBaseline(f, key, throughput) ==
    /\ mo_pc = "build"
    /\ mo_n < MaxMergeStores
    /\ key \notin DOMAIN mo_results[f].serial
    /\ mo_results' = [mo_results EXCEPT ![f].serial = Put(@, key, throughput)]
    /\ mo_n' = mo_n + 1
    /\ UNCHANGED <<mo_pc, mo_k, mo_ab, mo_ba>>

\* parse_conc_ll_results of file f stores a parallel result (line 52)
MoResult(f, key, impl_name, nthreads, throughput) ==
    /\ mo_pc = "build"
    /\ mo_n < MaxMergeStores
    /\ mo_results' = [mo_results EXCEPT
                         ![f].data = StoreResult(@, key, impl_name, nthreads, throughput)]
    /\ mo_n' = mo_n + 1
    /\ UNCHANGED <<mo_pc, mo_k, mo_ab, mo_ba>>

\* both files are parsed
MoStartMerge ==
    /\ mo_pc = "build"
    /\ mo_pc' = "merge"
    /\ UNCHANGED <<mo_results, mo_n, mo_k, mo_ab, mo_ba>>

\* merge_results(acc_serial, acc_data, serial_add, data_add), lines 48-57
MergeInto(acc, add) ==
    [serial |-> MergeSerial(acc.serial, add.serial), data |-> MergeData(acc.data, add.data)]

\* the next merge_results call of each order
MoMerge ==
    /\ mo_pc = "merge"
    /\ mo_k' = mo_k + 1
    /\ mo_ab' = MergeInto(mo_ab, mo_results[mo_k + 1])
    /\ mo_ba' = MergeInto(mo_ba, mo_results[NFiles - mo_k])
    /\ mo_pc' = IF mo_k + 1 = NFiles THEN "done" ELSE "merge"
    /\ UNCHANGED <<mo_results, mo_n>>

(***************************************************************************)
(* lab2/kmeans/diagram_generator/plot_all_results.py: aggregate_runs over  *)
(* a list of files, a file at a time                                       *)
(***************************************************************************)
VARIABLES
    ag_files,    \* the files argument: a list of [label, raises, entries]
    ag_pc,       \* "list" | "loop" | "done"
    ag_i,        \* index of the next file of the loop
    ag_acc,      \* [data, raw_entries, metadata, sequential_data]
    ag_printed   \* the indices of the files named in a "Failed to parse" message

agVars == <<ag_files, ag_pc, ag_i, ag_acc, ag_printed>>

MaxAggFiles == 2

\* the entries a file of the list can hold
AgEntries ==
    { [dataset_size_MB |-> 16, numCoords |-> 2, numClusters |-> 4,
       numThreads |-> t, per_loop_time_s |-> tm] : t \in {None, 2}, tm \in {1, 2} }

\* a file, by what aggregate_runs gets from it: its label (label_for_path), and
\* the list parse_results returns for it unless parse_results raises
AgFile(label, raises, entries) == [label |-> label, raises |-> raises, entries |-> entries]

AgFileSet ==
    { AgFile(l, FALSE, es) : l \in KmLabels, es \in SeqsUpTo(AgEntries, 2) }
    \cup { AgFile(l, TRUE, <<>>) : l \in KmLabels }

\* lines 36-39
AgEmpty ==
    [data |-> EmptyDict, raw_entries |-> EmptyDict, metadata |-> EmptyDict,
     sequential_data |-> EmptyDict]

AgInit ==
    /\ ag_files = <<>>
    /\ ag_pc = "list"
    /\ ag_i = 1
    /\ ag_acc = AgEmpty
    /\ ag_printed = <<>>

\* lines 54-91: one entry of a file
AggregateOne(acc, label, e) ==
    LET t == e.numThreads
        time == e.per_loop_time_s
    IN  IF IsSequentialLabel(label) /\ time # None /\ t = None
        THEN [acc EXCEPT !.sequential_data = StoreSequential(@, ConfigKeyOf(e), time),
                         !.metadata = StoreMeta(@, label, e)]
        ELSE IF t = None \/ time = None THEN acc
        ELSE [acc EXCEPT
                 !.data = Put(@, label, StoreTime(IF label \in DOMAIN @ THEN @[label]
                                                  ELSE EmptyDict, t, time)),
                 !.raw_entries = Put(@, label, Append(IF label \in DOMAIN @ THEN @[label]
                                                      ELSE <<>>, <<t, time>>)),
                 !.metadata = StoreMeta(@, label, e)]

\* lines 54-91: the loop over a file's entries, from index k
RECURSIVE AggregateEntries(_, _, _, _)
AggregateEntries(acc, label, entries, k) ==
    IF k > Len(entries) THEN acc
    ELSE AggregateEntries(AggregateOne(acc, label, entries[k]), label, entries, k + 1)

\* a mutant of lines 44-46: the handler leaves the loop
AfterFailedParseBreak(i, n) == n + 1

\* lines 44-46: the handler prints and continues with the next file
AfterFailedParse(i, n) == i + 1

\* find_result_files: the list grows by a file
AgListFile(f) ==
    /\ ag_pc = "list"
    /\ Len(ag_files) < MaxAggFiles
    /\ ag_files' = Append(ag_files, f)
    /\ UNCHANGED <<ag_pc, ag_i, ag_acc, ag_printed>>

\* aggregate_runs(files, results_root) is called
AgStart ==
    /\ ag_pc = "list"
    /\ ag_pc' = "loop"
    /\ UNCHANGED <<ag_files, ag_i, ag_acc, ag_printed>>

\* one iteration of `for f in files` (lines 41-91)
AgProcessFile ==
    /\ ag_pc = "loop"
    /\ ag_i <= Len(ag_files)
    /\ LET f == ag_files[ag_i]
       IN  IF f.raises
           THEN /\ ag_printed' = Append(ag_printed, ag_i)
                /\ ag_i' = AfterFailedParse(ag_i, Len(ag_files))
                /\ UNCHANGED ag_acc
           ELSE /\ ag_acc' = IF f.entries = <<>> THEN ag_acc
                             ELSE AggregateEntries(ag_acc, f.label, f.entries, 1)
                /\ ag_i' = ag_i + 1
                /\ UNCHANGED ag_printed
    /\ UNCHANGED <<ag_files, ag_pc>>

\* line 92: return data, raw_entries, metadata, sequential_data
AgReturn ==
    /\ ag_pc = "loop"
    /\ ag_i > Len(ag_files)
    /\ ag_pc' = "done"
    /\ UNCHANGED <<ag_files, ag_i, ag_acc, ag_printed>>

(***************************************************************************)
(* lab2/kmeans/diagram_generator/plot_all_results.py: plot_combined        *)
(***************************************************************************)
VARIABLES
    cb_data,      \* the data argument: label -> numThreads -> per-loop time
    cb_order,     \* the labels in data's iteration order
    cb_meta,      \* the metadata argument: label -> configuration key
    cb_seq,       \* the sequential_data argument: configuration key -> time
    cb_pc,        \* "build" | "plot" | "done" | "raised"
    cb_i,         \* index of the next configuration of config_groups.items()
    cb_created,   \* the charts saved: <<"time" | "speedup", configuration key>>
    cb_warned     \* the configurations named in a "No sequential baseline" warning

cbVars == <<cb_data, cb_order, cb_meta, cb_seq, cb_pc, cb_i, cb_created, cb_warned>>

MaxCbLabels == 4

\* the labels, in the order aggregate_runs meets them
CbLabels == <<"omp_naive", "omp_critical", "omp_reduction", "omp_atomic", "omp_padded">>

\* the thread maps of a label: none, or a time at 2 threads (0.0000s included)
CbThreadMaps == {EmptyDict} \cup { Put(EmptyDict, 2, tm) : tm \in {0, 1} }

CbSeqTimes == {0, 1}

CbInit ==
    /\ cb_data = EmptyDict
    /\ cb_order = <<>>
    /\ cb_meta = EmptyDict
    /\ cb_seq = EmptyDict
    /\ cb_pc = "build"
    /\ cb_i = 1
    /\ cb_created = <<>>
    /\ cb_warned = {}

\* aggregate_runs leaves a label with its thread map and metadata
CbLabel(config_key, thread_map) ==
    /\ cb_pc = "build"
    /\ Len(cb_order) < MaxCbLabels
    /\ LET label == CbLabels[Len(cb_order) + 1]
       IN  /\ cb_data' = Put(cb_data, label, thread_map)
           /\ cb_order' = Append(cb_order, label)
           /\ cb_meta' = Put(cb_meta, label, config_key)
    /\ UNCHANGED <<cb_seq, cb_pc, cb_i, cb_created, cb_warned>>

\* aggregate_runs leaves a sequential time for a configuration
CbSequential(config_key, time) ==
    /\ cb_pc = "build"
    /\ config_key \notin DOMAIN cb_seq
    /\ cb_seq' = Put(cb_seq, config_key, time)
    /\ UNCHANGED <<cb_data, cb_order, cb_meta, cb_pc, cb_i, cb_created, cb_warned>>

\* main calls plot_combined(data, out_dir, metadata, sequential_data)
CbStart ==
    /\ cb_pc = "build"
    /\ cb_pc' = "plot"
    /\ UNCHANGED <<cb_data, cb_order, cb_meta, cb_seq, cb_i, cb_created, cb_warned>>

\* lines 186-197: the labels with a thread map, in data's order
GroupedLabels == SelectSeq(cb_order, LAMBDA label : cb_data[label] # EmptyDict)

\* lines 186-197: the keys of config_groups, in insertion order
RECURSIVE GroupKeys(_, _, _)
GroupKeys(labels, k, keys) ==
    IF k > Len(labels) THEN keys
    ELSE GroupKeys(labels, k + 1,
                   IF \E j \in 1..Len(keys) : keys[j] = cb_meta[labels[k]] THEN keys
                   ELSE Append(keys, cb_meta[labels[k]]))

\* lines 186-197: config_groups[config_key]
GroupOf(config_key) == SelectSeq(GroupedLabels, LAMBDA label : cb_meta[label] = config_key)

\* lines 264-275: some baseline / seq_time or baseline / ordered[t] divides by zero
SpeedupDivides(labels, baseline) ==
    \/ baseline = 0
    \/ \E k \in 1..Len(labels) : \E j \in 1..Len(Canonical) :
          /\ Canonical[j] \in DOMAIN cb_data[labels[k]]
          /\ cb_data[labels[k]][Canonical[j]] = 0

\* one iteration of the loop over config_groups.items() (lines 200-293)
CbPlotConfig ==
    /\ cb_pc = "plot"
    /\ cb_i <= Len(GroupKeys(GroupedLabels, 1, <<>>))
    /\ LET config_key == GroupKeys(GroupedLabels, 1, <<>>)[cb_i]
           labels == GroupOf(config_key)
           baseline == Get(cb_seq, config_key)   \* seq_time
       IN  IF Len(labels) < 2
           THEN /\ cb_i' = cb_i + 1
                /\ UNCHANGED <<cb_pc, cb_created, cb_warned>>
           ELSE IF baseline = None
           THEN /\ cb_warned' = cb_warned \cup {config_key}
                /\ cb_i' = cb_i + 1
                /\ UNCHANGED <<cb_pc, cb_created>>
           ELSE IF SpeedupDivides(labels, baseline)
           THEN \* the time chart is saved at line 258, then ZeroDivisionError
                /\ cb_created' = Append(cb_created, <<"time", config_key>>)
                /\ cb_pc' = "raised"
                /\ UNCHANGED <<cb_i, cb_warned>>
           ELSE /\ cb_created' = cb_created \o <<<<"time", config_key>>,
                                                 <<"speedup", config_key>>>>
                /\ cb_i' = cb_i + 1
                /\ UNCHANGED <<cb_pc, cb_warned>>
    /\ UNCHANGED <<cb_data, cb_order, cb_meta, cb_seq>>

\* line 295: return created
CbReturn ==
    /\ cb_pc = "plot"
    /\ cb_i > Len(GroupKeys(GroupedLabels, 1, <<>>))
    /\ cb_pc' = "done"
    /\ UNCHANGED <<cb_data, cb_order, cb_meta, cb_seq, cb_i, cb_created, cb_warned>>

(***************************************************************************)
(* lab2/kmeans_locks/analyze_performance.py: the efficiency table          *)
(***************************************************************************)
VARIABLES
    ef_pc,      \* "wait" | "done"
    ef_table    \* row name -> the cells printed, <<thread count, efficiency or "N/A">>

efVars == <<ef_pc, ef_table>>

EfInit ==
    /\ ef_pc = "wait"
    /\ ef_table = EmptyDict

\* line 235: speedup / t, kept as the pair (speedup, t); the factor 100 of the
\* percentage is left out
Efficiency(speedup, t) == <<speedup, t>>

\* lines 225-227: the 'Sequential' row, (1.0 / t) * 100 at every thread count
SequentialRow(axis) == [k \in 1..Len(axis) |-> <<axis[k], Ratio(1, axis[k])>>]

\* lines 232-238: the row of one implementation
EfficiencyRow(results, axis, seq) ==
    [k \in 1..Len(axis) |->
        <<axis[k], IF axis[k] \in DOMAIN results
                   THEN Efficiency(Ratio(seq, results[axis[k]]), axis[k])
                   ELSE "N/A">>]

\* lines 213-239, after the plots and the other tables
PrintEfficiency ==
    /\ lk_pc = "done"
    /\ ef_pc = "wait"
    /\ ef_table' = [name \in DOMAIN all_data \cup {"Sequential"} |->
                       IF name = "Sequential" THEN SequentialRow(thread_counts)
                       ELSE EfficiencyRow(all_data[name], thread_counts, seq_time)]
    /\ ef_pc' = "done"

(***************************************************************************)
(* lab4/kmeans/plot_mpi_results.py: parse_mpi_results and generate_plots;  *)
(* plot_comparison.py has the same parsers, and generate_comparison_plot   *)
(* computes its two speedup lists in the same way (lines 107-115)          *)
(***************************************************************************)
VARIABLES
    mp_matches,    \* re.findall(pattern, content): <<num_tasks, time>>, in file order
    mp_pc,         \* "read" | "none" | "plotted"
    mp_results,    \* results, sorted by num_tasks
    mp_baseline,   \* baseline_time
    mp_speedups    \* speedups, one per element of results

mpVars == <<mp_matches, mp_pc, mp_results, mp_baseline, mp_speedups>>

MaxMpMatches == 3

MpTasks == {1, 2, 4}

MpTimes == {1, 2}

MpInit ==
    /\ mp_matches = <<>>
    /\ mp_pc = "read"
    /\ mp_results = <<>>
    /\ mp_baseline = None
    /\ mp_speedups = <<>>

\* line 50: results.sort(key=lambda x: x['num_tasks']); the sort is stable
RECURSIVE SortByTasks(_, _)
SortByTasks(results, keys) ==
    IF keys = {} THEN <<>>
    ELSE SelectSeq(results, LAMBDA r : r[1] = SetMin(keys))
            \o SortByTasks(results, keys \ {SetMin(keys)})

\* line 63: baseline_time = times[0]
BaselineTime(results) == results[1][2]

\* line 64: speedups = [baseline_time / t for t in times]
MpSpeedups(results, baseline) ==
    [k \in 1..Len(results) |-> Ratio(baseline, results[k][2])]

\* the file holds one more 'Num MPI Tasks: n ... per loop = t s' match
MpMatch(num_tasks, time) ==
    /\ mp_pc = "read"
    /\ Len(mp_matches) < MaxMpMatches
    /\ mp_matches' = Append(mp_matches, <<num_tasks, time>>)
    /\ UNCHANGED <<mp_pc, mp_results, mp_baseline, mp_speedups>>

\* parse_mpi_results(filename), then generate_plots(config, results) unless
\* the parse returned None (lines 38-40)
MpPlot ==
    /\ mp_pc = "read"
    /\ IF mp_matches = <<>>
       THEN /\ mp_pc' = "none"
            /\ UNCHANGED <<mp_results, mp_baseline, mp_speedups>>
       ELSE LET results == SortByTasks(mp_matches,
                                       { mp_matches[k][1] : k \in 1..Len(mp_matches) })
            IN  /\ mp_results' = results
                /\ mp_baseline' = BaselineTime(results)
                /\ mp_speedups' = MpSpeedups(results, BaselineTime(results))
                /\ mp_pc' = "plotted"
    /\ UNCHANGED mp_matches

(***************************************************************************)
(* lab2/conc_ll/plots/plot.py: the plotting loop, on the dicts the scanner *)
(* leaves                                                                  *)
(***************************************************************************)
VARIABLES
    pt_data,     \* data[(size, percents)][impl][nthreads] = throughput
    pt_serial,   \* serial[(size, percents)][impl] = throughput at nthreads == 1
    pt_order,    \* the keys of data in insertion order
    pt_pc,       \* "scan" | "plot" | "done"
    pt_i,        \* index in pt_order of the next configuration to plot
    pt_series,   \* (size, percents) -> impl -> the points plotted, <<threads, speedup>>
    pt_warned    \* the <<impl, key>> pairs named in a '[WARN] No serial baseline' line

ptVars == <<pt_data, pt_serial, pt_order, pt_pc, pt_i, pt_series, pt_warned>>

MaxPtResults == 3

PtImpls == {"x.cgl", "x.fgl"}

\* [\d\.]+ matches 0.00 too
PtThroughputs == {0, 1, 2}

PtInit ==
    /\ pt_data = EmptyDict
    /\ pt_serial = EmptyDict
    /\ pt_order = <<>>
    /\ pt_pc = "scan"
    /\ pt_i = 1
    /\ pt_series = EmptyDict
    /\ pt_warned = {}

\* lines 47-55: a result line read in the context (key, impl)
PtResult(key, impl, nthreads, throughput) ==
    /\ pt_pc = "scan"
    /\ Len(pt_order) < MaxPtResults
    /\ pt_data' = StoreResult(pt_data, key, impl, nthreads, throughput)
    /\ pt_serial' = IF nthreads = 1 THEN StoreSerial(pt_serial, key, impl, throughput)
                    ELSE pt_serial
    /\ pt_order' = Append(pt_order, key)
    /\ UNCHANGED <<pt_pc, pt_i, pt_series, pt_warned>>

\* the file is exhausted
PtStartPlot ==
    /\ pt_pc = "scan"
    /\ pt_pc' = "plot"
    /\ UNCHANGED <<pt_data, pt_serial, pt_order, pt_i, pt_series, pt_warned>>

\* the distinct keys of data, in the order of their first result
RECURSIVE FirstOccurrences(_, _, _)
FirstOccurrences(s, k, acc) ==
    IF k > Len(s) THEN acc
    ELSE FirstOccurrences(s, k + 1,
                          IF \E j \in 1..Len(acc) : acc[j] = s[k] THEN acc
                          ELSE Append(acc, s[k]))

\* a mutant of line 75: a baseline of 0 is taken as a baseline
NoSerialBaselineMissingOnly(sd, key, impl) ==
    key \notin DOMAIN sd \/ impl \notin DOMAIN sd[key]

\* line 75: impl not in serial[key] or serial[key][impl] == 0
NoSerialBaseline(sd, key, impl) ==
    \/ key \notin DOMAIN sd
    \/ impl \notin DOMAIN sd[key]
    \/ sd[key][impl] = 0

\* lines 79-80: nt = sorted(runs.keys()); speedup = runs[t] / serial[key][impl]
SpeedupPoints(runs, base) ==
    LET nt == SortedInts(DOMAIN runs)
    IN  [k \in 1..Len(nt) |-> <<nt[k], Ratio(runs[nt[k]], base)>>]

\* one iteration of the loop over data.items() (lines 59-96)
PtPlotKey ==
    /\ pt_pc = "plot"
    /\ pt_i <= Len(FirstOccurrences(pt_order, 1, <<>>))
    /\ LET key == FirstOccurrences(pt_order, 1, <<>>)[pt_i]
           impl_runs == pt_data[key]
           plotted == { impl \in DOMAIN impl_runs : ~NoSerialBaseline(pt_serial, key, impl) }
       IN  /\ pt_warned' = pt_warned \cup { <<impl, key>> : impl \in DOMAIN impl_runs \ plotted }
           /\ pt_series' = Put(pt_series, key,
                               [impl \in plotted |->
                                   SpeedupPoints(impl_runs[impl], pt_serial[key][impl])])
    /\ pt_i' = pt_i + 1
    /\ UNCHANGED <<pt_data, pt_serial, pt_order, pt_pc>>

\* line 98: print("Done.")
PtDone ==
    /\ pt_pc = "plot"
    /\ pt_i > Len(FirstOccurrences(pt_order, 1, <<>>))
    /\ pt_pc' = "done"
    /\ UNCHANGED <<pt_data, pt_serial, pt_order, pt_i, pt_series, pt_warned>>

(***************************************************************************)
(* lab2/kmeans_locks/analyze_performance.py: parse_parallel                *)
(***************************************************************************)
VARIABLES
    pr_content,   \* the text of the file read so far, as its tokens
    pr_pc,        \* "read" | "parsed"
    pr_results    \* results: thread count -> time

prVars == <<pr_content, pr_pc, pr_results>>

MaxPrTokens == 5

\* a piece of the text: "hdr" is '--- nthreads = n ---', "total" is
\* 'nloops = k (total = v s)'
PrToken(kind, n, val) == [kind |-> kind, n |-> n, val |-> val]

PrTokens ==
    { PrToken("hdr", n, None) : n \in LockThreads }
    \cup { PrToken("total", None, v) : v \in LockTimes }

PrInit ==
    /\ pr_content = <<>>
    /\ pr_pc = "read"
    /\ pr_results = EmptyDict

\* lines 29-30: re.findall(pattern, content, re.DOTALL).  A match starts at an
\* nthreads header and runs (.*?, lazily, over line breaks and over any
\* header) to the first total after it; the search resumes behind it.
RECURSIVE ParallelMatches(_, _)
ParallelMatches(content, p) ==
    IF p > Len(content) THEN <<>>
    ELSE IF content[p].kind = "hdr"
    THEN LET q == FirstOfKind(content, "total", p + 1, Len(content) + 1)
         IN  IF q = 0 THEN <<>>
             ELSE <<[threads |-> content[p].n, time |-> content[q].val]>>
                  \o ParallelMatches(content, q + 1)
    ELSE ParallelMatches(content, p + 1)

\* lines 32-33: results[int(threads)] = float(time), for the matches from k
RECURSIVE StoreMatches(_, _, _)
StoreMatches(matches, k, results) ==
    IF k > Len(matches) THEN results
    ELSE StoreMatches(matches, k + 1, Put(results, matches[k].threads, matches[k].time))

\* f.read(), a token at a time
PrRead(tok) ==
    /\ pr_pc = "read"
    /\ Len(pr_content) < MaxPrTokens
    /\ pr_content' = Append(pr_content, tok)
    /\ UNCHANGED <<pr_pc, pr_results>>

\* parse_parallel on the text read (lines 27-35)
ParseParallel ==
    /\ pr_pc = "read"
    /\ pr_results' = StoreMatches(ParallelMatches(pr_content, 1), 1, EmptyDict)
    /\ pr_pc' = "parsed"
    /\ UNCHANGED pr_content

(***************************************************************************)
(* Lab1/diagrams/diagram.py                                                *)
(***************************************************************************)
VARIABLES
    gl_results,   \* results / times: size -> the times of its lines, in file order
    gl_n,         \* the number of 'GameOfLife: Size .. Time ..' lines read
    gl_pc,        \* "scan" | "computed" | "done" | "raised"
    gl_speedup    \* speedup: size -> list, in ten-thousandths (round(.., 4))

glVars == <<gl_results, gl_n, gl_pc, gl_speedup>>

MaxGolLines == 5

\* line 16
number_of_threads == <<1, 2, 4, 6, 8>>

GolSizes == {64, 1024}

GolTimes == {1, 2, 3}

GlInit ==
    /\ gl_results = EmptyDict
    /\ gl_n = 0
    /\ gl_pc = "scan"
    /\ gl_speedup = EmptyDict

\* line 39: round(a / b, 4), as a count of ten-thousandths
RoundedQuotient(a, b) == (2 * a * 10000 + b) \div (2 * b)

\* lines 37-39: the speedups of one size
SpeedupList(time_list) ==
    [i \in 1..Len(time_list) |-> RoundedQuotient(time_list[1], time_list[i])]

\* lines 26-30: a line that matches the pattern
GlLine(size, time) ==
    /\ gl_pc = "scan"
    /\ gl_n < MaxGolLines
    /\ gl_results' = Put(gl_results, size,
                         Append(IF size \in DOMAIN gl_results THEN gl_results[size] ELSE <<>>,
                                time))
    /\ gl_n' = gl_n + 1
    /\ UNCHANGED <<gl_pc, gl_speedup>>

\* lines 33-39: the lines are exhausted; speedup is computed
GlSpeedups ==
    /\ gl_pc = "scan"
    /\ gl_speedup' = [size \in DOMAIN gl_results |-> SpeedupList(gl_results[size])]
    /\ gl_pc' = "computed"
    /\ UNCHANGED <<gl_results, gl_n>>

\* lines 86-87: plot_times, then plot_speedup; plot(number_of_threads, ys)
\* raises ValueError when the two lists differ in length (lines 58 and 77)
GlPlot ==
    /\ gl_pc = "computed"
    /\ gl_pc' = IF \A size \in DOMAIN gl_results :
                      Len(gl_results[size]) = Len(number_of_threads)
                THEN "done" ELSE "raised"
    /\ UNCHANGED <<gl_results, gl_n, gl_speedup>>

(***************************************************************************)
(* The specifications: one per script                                      *)
(***************************************************************************)
vars == <<kmVars, fwVars, llVars, plVars, lkVars, ppVars, htVars, dgVars, mkVars, g3Vars, moVars, agVars, cbVars, efVars, mpVars, ptVars, prVars, glVars>>

Init == KmInit /\ FwInit /\ LlInit /\ PlInit /\ LkInit /\ PpInit /\ HtInit /\ DgInit /\ MkInit /\ G3Init /\ MoInit /\ AgInit /\ CbInit /\ EfInit /\ MpInit /\ PtInit /\ PrInit /\ GlInit

NextKmeans ==
    \/ (\E label \in KmLabels, e \in KmEntries : AggregateEntry(label, e)) /\ UNCHANGED <<fwVars, llVars, plVars, lkVars, ppVars, htVars, dgVars, mkVars, g3Vars, moVars, agVars, cbVars, efVars, mpVars, ptVars, prVars, glVars>>
    \/ StartPlot /\ UNCHANGED <<fwVars, llVars, plVars, lkVars, ppVars, htVars, dgVars, mkVars, g3Vars, moVars, agVars, cbVars, efVars, mpVars, ptVars, prVars, glVars>>
    \/ PlotLabel /\ UNCHANGED <<fwVars, llVars, plVars, lkVars, ppVars, htVars, dgVars, mkVars, g3Vars, moVars, agVars, cbVars, efVars, mpVars, ptVars, prVars, glVars>>
    \/ PlotReturn /\ UNCHANGED <<fwVars, llVars, plVars, lkVars, ppVars, htVars, dgVars, mkVars, g3Vars, moVars, agVars, cbVars, efVars, mpVars, ptVars, prVars, glVars>>

NextFW == FwScan /\ UNCHANGED <<kmVars, llVars, plVars, lkVars, ppVars, htVars, dgVars, mkVars, g3Vars, moVars, agVars, cbVars, efVars, mpVars, ptVars, prVars, glVars>>

NextFWWindow == FwWindowScan /\ UNCHANGED <<kmVars, llVars, plVars, lkVars, ppVars, htVars, dgVars, mkVars, g3Vars, moVars, agVars, cbVars, efVars, mpVars, ptVars, prVars, glVars>>

NextConcLL ==
    \/ (\E tok \in LlTokens : ReadToken(tok)) /\ UNCHANGED <<kmVars, fwVars, plVars, lkVars, ppVars, htVars, dgVars, mkVars, g3Vars, moVars, agVars, cbVars, efVars, mpVars, ptVars, prVars, glVars>>
    \/ ParseConcLL /\ UNCHANGED <<kmVars, fwVars, plVars, lkVars, ppVars, htVars, dgVars, mkVars, g3Vars, moVars, agVars, cbVars, efVars, mpVars, ptVars, prVars, glVars>>
    \/ MergeResults /\ UNCHANGED <<kmVars, fwVars, plVars, lkVars, ppVars, htVars, dgVars, mkVars, g3Vars, moVars, agVars, cbVars, efVars, mpVars, ptVars, prVars, glVars>>

NextConcLLPlot ==
    \/ (\E key \in LlConfigs, v \in LlSerialThroughputs : BuildBaseline(key, v))
          /\ UNCHANGED <<kmVars, fwVars, llVars, lkVars, ppVars, htVars, dgVars, mkVars, g3Vars, moVars, agVars, cbVars, efVars, mpVars, ptVars, prVars, glVars>>
    \/ (\E key \in LlConfigs, k \in 1..Len(LlImpls), n \in LlThreadCounts, v \in LlThroughputs :
            BuildResult(key, LlImpls[k], n, v))
          /\ UNCHANGED <<kmVars, fwVars, llVars, lkVars, ppVars, htVars, dgVars, mkVars, g3Vars, moVars, agVars, cbVars, efVars, mpVars, ptVars, prVars, glVars>>
    \/ PlStartPlot /\ UNCHANGED <<kmVars, fwVars, llVars, lkVars, ppVars, htVars, dgVars, mkVars, g3Vars, moVars, agVars, cbVars, efVars, mpVars, ptVars, prVars, glVars>>
    \/ PlotConfig /\ UNCHANGED <<kmVars, fwVars, llVars, lkVars, ppVars, htVars, dgVars, mkVars, g3Vars, moVars, agVars, cbVars, efVars, mpVars, ptVars, prVars, glVars>>
    \/ PlStartSummary /\ UNCHANGED <<kmVars, fwVars, llVars, lkVars, ppVars, htVars, dgVars, mkVars, g3Vars, moVars, agVars, cbVars, efVars, mpVars, ptVars, prVars, glVars>>
    \/ SummaryConfig /\ UNCHANGED <<kmVars, fwVars, llVars, lkVars, ppVars, htVars, dgVars, mkVars, g3Vars, moVars, agVars, cbVars, efVars, mpVars, ptVars, prVars, glVars>>
    \/ PlDone /\ UNCHANGED <<kmVars, fwVars, llVars, lkVars, ppVars, htVars, dgVars, mkVars, g3Vars, moVars, agVars, cbVars, efVars, mpVars, ptVars, prVars, glVars>>

NextLocks ==
    \/ (\E time \in LockTimes \cup {None} : ParseSequential(time))
          /\ UNCHANGED <<kmVars, fwVars, llVars, plVars, ppVars, htVars, dgVars, mkVars, g3Vars, moVars, agVars, cbVars, efVars, mpVars, ptVars, prVars, glVars>>
    \/ (\E results \in LockResults : ParseLock(results))
          /\ UNCHANGED <<kmVars, fwVars, llVars, plVars, ppVars, htVars, dgVars, mkVars, g3Vars, moVars, agVars, cbVars, efVars, mpVars, ptVars, prVars, glVars>>
    \/ ThreadAxis /\ UNCHANGED <<kmVars, fwVars, llVars, plVars, ppVars, htVars, dgVars, mkVars, g3Vars, moVars, agVars, cbVars, efVars, mpVars, ptVars, prVars, glVars>>
    \/ PlotTimes /\ UNCHANGED <<kmVars, fwVars, llVars, plVars, ppVars, htVars, dgVars, mkVars, g3Vars, moVars, agVars, cbVars, efVars, mpVars, ptVars, prVars, glVars>>
    \/ PlotSpeedups /\ UNCHANGED <<kmVars, fwVars, llVars, plVars, ppVars, htVars, dgVars, mkVars, g3Vars, moVars, agVars, cbVars, efVars, mpVars, ptVars, prVars, glVars>>

NextPlotPy ==
    (\E line \in PpLines : PpScanLine(line)) /\ UNCHANGED <<kmVars, fwVars, llVars, plVars, lkVars, htVars, dgVars, mkVars, g3Vars, moVars, agVars, cbVars, efVars, mpVars, ptVars, prVars, glVars>>

NextMpiScan ==
    \/ (\E method \in HtMethods : MpiOpen(method))
          /\ UNCHANGED <<kmVars, fwVars, llVars, plVars, lkVars, ppVars, dgVars, mkVars, g3Vars, moVars, agVars, cbVars, efVars, mpVars, ptVars, prVars, glVars>>
    \/ (\E line \in MpiLines : MpiScanLine(line))
          /\ UNCHANGED <<kmVars, fwVars, llVars, plVars, lkVars, ppVars, dgVars, mkVars, g3Vars, moVars, agVars, cbVars, efVars, mpVars, ptVars, prVars, glVars>>

NextHeat ==
    \/ (\E content \in SerialFiles : CallParseSerial(content))
          /\ UNCHANGED <<kmVars, fwVars, llVars, plVars, lkVars, ppVars, dgVars, mkVars, g3Vars, moVars, agVars, cbVars, efVars, mpVars, ptVars, prVars, glVars>>
    \/ (\E lines \in MpiFiles, method \in HtMethods : CallParseMpi(lines, method))
          /\ UNCHANGED <<kmVars, fwVars, llVars, plVars, lkVars, ppVars, dgVars, mkVars, g3Vars, moVars, agVars, cbVars, efVars, mpVars, ptVars, prVars, glVars>>

NextDiagramGen ==
    \/ (dg_pc = "open" /\ \E lines \in DgFiles : DgOpen(lines))
          /\ UNCHANGED <<kmVars, fwVars, llVars, plVars, lkVars, ppVars, htVars, mkVars, g3Vars, moVars, agVars, cbVars, efVars, mpVars, ptVars, prVars, glVars>>
    \/ DgStep /\ UNCHANGED <<kmVars, fwVars, llVars, plVars, lkVars, ppVars, htVars, mkVars, g3Vars, moVars, agVars, cbVars, efVars, mpVars, ptVars, prVars, glVars>>
    \/ DgReturn /\ UNCHANGED <<kmVars, fwVars, llVars, plVars, lkVars, ppVars, htVars, mkVars, g3Vars, moVars, agVars, cbVars, efVars, mpVars, ptVars, prVars, glVars>>

NextMakePlots ==
    \/ (\E size \in FwSizes : MkSize(size)) /\ UNCHANGED <<kmVars, fwVars, llVars, plVars, lkVars, ppVars, htVars, dgVars, g3Vars, moVars, agVars, cbVars, efVars, mpVars, ptVars, prVars, glVars>>
    \/ (\E size \in FwSizes, time \in MkTimes : MkSerial(size, time)) /\ UNCHANGED <<kmVars, fwVars, llVars, plVars, lkVars, ppVars, htVars, dgVars, g3Vars, moVars, agVars, cbVars, efVars, mpVars, ptVars, prVars, glVars>>
    \/ (\E size \in FwSizes, nthreads \in MkThreadCounts, time \in MkTimes :
            MkThreadTime(size, nthreads, time))
          /\ UNCHANGED <<kmVars, fwVars, llVars, plVars, lkVars, ppVars, htVars, dgVars, g3Vars, moVars, agVars, cbVars, efVars, mpVars, ptVars, prVars, glVars>>
    \/ MkStartPlots /\ UNCHANGED <<kmVars, fwVars, llVars, plVars, lkVars, ppVars, htVars, dgVars, g3Vars, moVars, agVars, cbVars, efVars, mpVars, ptVars, prVars, glVars>>
    \/ MkPlotSize /\ UNCHANGED <<kmVars, fwVars, llVars, plVars, lkVars, ppVars, htVars, dgVars, g3Vars, moVars, agVars, cbVars, efVars, mpVars, ptVars, prVars, glVars>>
    \/ MkDone /\ UNCHANGED <<kmVars, fwVars, llVars, plVars, lkVars, ppVars, htVars, dgVars, g3Vars, moVars, agVars, cbVars, efVars, mpVars, ptVars, prVars, glVars>>

NextKmeansZero ==
    \/ (\E label \in KmZeroLabels, e \in KmZeroEntries : AggregateEntry(label, e))
          /\ UNCHANGED <<fwVars, llVars, plVars, lkVars, ppVars, htVars, dgVars, mkVars, g3Vars, moVars, agVars, cbVars, efVars, mpVars, ptVars, prVars, glVars>>
    \/ StartPlot /\ UNCHANGED <<fwVars, llVars, plVars, lkVars, ppVars, htVars, dgVars, mkVars, g3Vars, moVars, agVars, cbVars, efVars, mpVars, ptVars, prVars, glVars>>
    \/ PlotLabel /\ UNCHANGED <<fwVars, llVars, plVars, lkVars, ppVars, htVars, dgVars, mkVars, g3Vars, moVars, agVars, cbVars, efVars, mpVars, ptVars, prVars, glVars>>
    \/ PlotReturn /\ UNCHANGED <<fwVars, llVars, plVars, lkVars, ppVars, htVars, dgVars, mkVars, g3Vars, moVars, agVars, cbVars, efVars, mpVars, ptVars, prVars, glVars>>

NextConcLLMalformed ==
    \/ (\E tok \in LlTokensMalformed : ReadToken(tok)) /\ UNCHANGED <<kmVars, fwVars, plVars, lkVars, ppVars, htVars, dgVars, mkVars, g3Vars, moVars, agVars, cbVars, efVars, mpVars, ptVars, prVars, glVars>>
    \/ ParseConcLL /\ UNCHANGED <<kmVars, fwVars, plVars, lkVars, ppVars, htVars, dgVars, mkVars, g3Vars, moVars, agVars, cbVars, efVars, mpVars, ptVars, prVars, glVars>>

NextGpuParse ==
    \/ (\E sec \in Sections : ReadSection(sec)) /\ UNCHANGED <<kmVars, fwVars, llVars, plVars, lkVars, ppVars, htVars, dgVars, mkVars, moVars, agVars, cbVars, efVars, mpVars, ptVars, prVars, glVars>>
    \/ ParseGpuResults /\ UNCHANGED <<kmVars, fwVars, llVars, plVars, lkVars, ppVars, htVars, dgVars, mkVars, moVars, agVars, cbVars, efVars, mpVars, ptVars, prVars, glVars>>

NextMergeOrder ==
    \/ (\E f \in 1..NFiles, key \in LlConfigs, v \in LlThroughputs : MoBaseline(f, key, v))
          /\ UNCHANGED <<kmVars, fwVars, llVars, plVars, lkVars, ppVars, htVars, dgVars, mkVars, g3Vars, agVars, cbVars, efVars, mpVars, ptVars, prVars, glVars>>
    \/ (\E f \in 1..NFiles, key \in LlConfigs, k \in 1..Len(LlImpls), n \in LlThreadCounts,
           v \in LlThroughputs : MoResult(f, key, LlImpls[k], n, v))
          /\ UNCHANGED <<kmVars, fwVars, llVars, plVars, lkVars, ppVars, htVars, dgVars, mkVars, g3Vars, agVars, cbVars, efVars, mpVars, ptVars, prVars, glVars>>
    \/ MoStartMerge /\ UNCHANGED <<kmVars, fwVars, llVars, plVars, lkVars, ppVars, htVars, dgVars, mkVars, g3Vars, agVars, cbVars, efVars, mpVars, ptVars, prVars, glVars>>
    \/ MoMerge /\ UNCHANGED <<kmVars, fwVars, llVars, plVars, lkVars, ppVars, htVars, dgVars, mkVars, g3Vars, agVars, cbVars, efVars, mpVars, ptVars, prVars, glVars>>

NextAggregateFiles ==
    \/ (\E f \in AgFileSet : AgListFile(f)) /\ UNCHANGED <<kmVars, fwVars, llVars, plVars, lkVars, ppVars, htVars, dgVars, mkVars, g3Vars, moVars, cbVars, efVars, mpVars, ptVars, prVars, glVars>>
    \/ AgStart /\ UNCHANGED <<kmVars, fwVars, llVars, plVars, lkVars, ppVars, htVars, dgVars, mkVars, g3Vars, moVars, cbVars, efVars, mpVars, ptVars, prVars, glVars>>
    \/ AgProcessFile /\ UNCHANGED <<kmVars, fwVars, llVars, plVars, lkVars, ppVars, htVars, dgVars, mkVars, g3Vars, moVars, cbVars, efVars, mpVars, ptVars, prVars, glVars>>
    \/ AgReturn /\ UNCHANGED <<kmVars, fwVars, llVars, plVars, lkVars, ppVars, htVars, dgVars, mkVars, g3Vars, moVars, cbVars, efVars, mpVars, ptVars, prVars, glVars>>

NextPlotCombined ==
    \/ (\E c \in KmConfigs, m \in CbThreadMaps : CbLabel(c, m)) /\ UNCHANGED <<kmVars, fwVars, llVars, plVars, lkVars, ppVars, htVars, dgVars, mkVars, g3Vars, moVars, agVars, efVars, mpVars, ptVars, prVars, glVars>>
    \/ (\E c \in KmConfigs, tm \in CbSeqTimes : CbSequential(c, tm)) /\ UNCHANGED <<kmVars, fwVars, llVars, plVars, lkVars, ppVars, htVars, dgVars, mkVars, g3Vars, moVars, agVars, efVars, mpVars, ptVars, prVars, glVars>>
    \/ CbStart /\ UNCHANGED <<kmVars, fwVars, llVars, plVars, lkVars, ppVars, htVars, dgVars, mkVars, g3Vars, moVars, agVars, efVars, mpVars, ptVars, prVars, glVars>>
    \/ CbPlotConfig /\ UNCHANGED <<kmVars, fwVars, llVars, plVars, lkVars, ppVars, htVars, dgVars, mkVars, g3Vars, moVars, agVars, efVars, mpVars, ptVars, prVars, glVars>>
    \/ CbReturn /\ UNCHANGED <<kmVars, fwVars, llVars, plVars, lkVars, ppVars, htVars, dgVars, mkVars, g3Vars, moVars, agVars, efVars, mpVars, ptVars, prVars, glVars>>

NextLocksEfficiency ==
    \/ (\E time \in LockTimes \cup {None} : ParseSequential(time)) /\ UNCHANGED <<kmVars, fwVars, llVars, plVars, ppVars, htVars, dgVars, mkVars, g3Vars, moVars, agVars, cbVars, efVars, mpVars, ptVars, prVars, glVars>>
    \/ (\E results \in LockResults : ParseLock(results)) /\ UNCHANGED <<kmVars, fwVars, llVars, plVars, ppVars, htVars, dgVars, mkVars, g3Vars, moVars, agVars, cbVars, efVars, mpVars, ptVars, prVars, glVars>>
    \/ ThreadAxis /\ UNCHANGED <<kmVars, fwVars, llVars, plVars, ppVars, htVars, dgVars, mkVars, g3Vars, moVars, agVars, cbVars, efVars, mpVars, ptVars, prVars, glVars>>
    \/ PlotTimes /\ UNCHANGED <<kmVars, fwVars, llVars, plVars, ppVars, htVars, dgVars, mkVars, g3Vars, moVars, agVars, cbVars, efVars, mpVars, ptVars, prVars, glVars>>
    \/ PlotSpeedups /\ UNCHANGED <<kmVars, fwVars, llVars, plVars, ppVars, htVars, dgVars, mkVars, g3Vars, moVars, agVars, cbVars, efVars, mpVars, ptVars, prVars, glVars>>
    \/ PrintEfficiency /\ UNCHANGED <<kmVars, fwVars, llVars, plVars, lkVars, ppVars, htVars, dgVars, mkVars, g3Vars, moVars, agVars, cbVars, mpVars, ptVars, prVars, glVars>>

NextMpiKmeans ==
    \/ (\E n \in MpTasks, t \in MpTimes : MpMatch(n, t)) /\ UNCHANGED <<kmVars, fwVars, llVars, plVars, lkVars, ppVars, htVars, dgVars, mkVars, g3Vars, moVars, agVars, cbVars, efVars, ptVars, prVars, glVars>>
    \/ MpPlot /\ UNCHANGED <<kmVars, fwVars, llVars, plVars, lkVars, ppVars, htVars, dgVars, mkVars, g3Vars, moVars, agVars, cbVars, efVars, ptVars, prVars, glVars>>

NextPlotPyPlots ==
    \/ (\E key \in LlConfigs, impl \in PtImpls, n \in LlThreadCounts, v \in PtThroughputs :
            PtResult(key, impl, n, v))
          /\ UNCHANGED <<kmVars, fwVars, llVars, plVars, lkVars, ppVars, htVars, dgVars, mkVars, g3Vars, moVars, agVars, cbVars, efVars, mpVars, prVars, glVars>>
    \/ PtStartPlot /\ UNCHANGED <<kmVars, fwVars, llVars, plVars, lkVars, ppVars, htVars, dgVars, mkVars, g3Vars, moVars, agVars, cbVars, efVars, mpVars, prVars, glVars>>
    \/ PtPlotKey /\ UNCHANGED <<kmVars, fwVars, llVars, plVars, lkVars, ppVars, htVars, dgVars, mkVars, g3Vars, moVars, agVars, cbVars, efVars, mpVars, prVars, glVars>>
    \/ PtDone /\ UNCHANGED <<kmVars, fwVars, llVars, plVars, lkVars, ppVars, htVars, dgVars, mkVars, g3Vars, moVars, agVars, cbVars, efVars, mpVars, prVars, glVars>>

NextParseParallel ==
    \/ (\E tok \in PrTokens : PrRead(tok)) /\ UNCHANGED <<kmVars, fwVars, llVars, plVars, lkVars, ppVars, htVars, dgVars, mkVars, g3Vars, moVars, agVars, cbVars, efVars, mpVars, ptVars, glVars>>
    \/ ParseParallel /\ UNCHANGED <<kmVars, fwVars, llVars, plVars, lkVars, ppVars, htVars, dgVars, mkVars, g3Vars, moVars, agVars, cbVars, efVars, mpVars, ptVars, glVars>>

NextGameOfLife ==
    \/ (\E size \in GolSizes, time \in GolTimes : GlLine(size, time)) /\ UNCHANGED <<kmVars, fwVars, llVars, plVars, lkVars, ppVars, htVars, dgVars, mkVars, g3Vars, moVars, agVars, cbVars, efVars, mpVars, ptVars, prVars>>
    \/ GlSpeedups /\ UNCHANGED <<kmVars, fwVars, llVars, plVars, lkVars, ppVars, htVars, dgVars, mkVars, g3Vars, moVars, agVars, cbVars, efVars, mpVars, ptVars, prVars>>
    \/ GlPlot /\ UNCHANGED <<kmVars, fwVars, llVars, plVars, lkVars, ppVars, htVars, dgVars, mkVars, g3Vars, moVars, agVars, cbVars, efVars, mpVars, ptVars, prVars>>

\* plot_all_results.py: aggregate_runs, then plot_per_implementation
SpecKmeans == Init /\ [][NextKmeans]_vars

\* plot_recursive_fw.py: parse_fw_recursive over short files of every line kind
SpecFW == Init /\ [][NextFW]_vars

\* plot_recursive_fw.py: parse_fw_recursive over files longer than the lookback window
SpecFWWindow == Init /\ [][NextFWWindow]_vars

\* conc_ll: parse_conc_ll_results on each file read, merge_results on its result
SpecConcLL == Init /\ [][NextConcLL]_vars

\* conc_ll/plot_speedups.py: a parse result, then plot_speedup and print_summary
SpecConcLLPlot == Init /\ [][NextConcLLPlot]_vars

\* analyze_performance.py: the parsing loop and the two bar plots
SpecLocks == Init /\ [][NextLocks]_vars

\* conc_ll/plots/plot.py: the scan of the input file
SpecPlotPy == Init /\ [][NextPlotPy]_vars

\* plot_mpi_performance.py: one call of parse_mpi_results, line by line
SpecMpiScan == Init /\ [][NextMpiScan]_vars

\* plot_mpi_performance.py: whole calls of the two parsers, in any order
SpecHeat == Init /\ [][NextHeat]_vars

\* diagram_gen.py: parse_results on one file
SpecDiagramGen == Init /\ [][NextDiagramGen]_vars

\* plot_recursive_fw.py: make_plots on what parse_fw_recursive returned
SpecMakePlots == Init /\ [][NextMakePlots]_vars

\* plot_all_results.py on logs in which a per-loop time can be 0
SpecKmeansZero == Init /\ [][NextKmeansZero]_vars

\* conc_ll: parse_conc_ll_results on a file that can hold malformed numbers
SpecConcLLMalformed == Init /\ [][NextConcLLMalformed]_vars

\* lab3/plot_all_speedups.py: parse_results on one file
SpecGpuParse == Init /\ [][NextGpuParse]_vars

\* lab2/conc_ll/plots/plot_speedups.py: merge_results on two parse results, both orders
SpecMergeOrder == Init /\ [][NextMergeOrder]_vars

\* plot_all_results.py: aggregate_runs over a list of files
SpecAggregateFiles == Init /\ [][NextAggregateFiles]_vars

\* plot_all_results.py: plot_combined on the dicts aggregate_runs returns
SpecPlotCombined == Init /\ [][NextPlotCombined]_vars

\* analyze_performance.py: the script through its efficiency table
SpecLocksEfficiency == Init /\ [][NextLocksEfficiency]_vars

\* lab4/kmeans/plot_mpi_results.py: parse_mpi_results, then generate_plots
SpecMpiKmeans == Init /\ [][NextMpiKmeans]_vars

\* lab2/conc_ll/plots/plot.py: the results stored by the scan, then the plots
SpecPlotPyPlots == Init /\ [][NextPlotPyPlots]_vars

\* analyze_performance.py: parse_parallel on one file
SpecParseParallel == Init /\ [][NextParseParallel]_vars

\* diagram_gen.py: parse_results, which runs on until it returns
SpecDiagramGenFair == Init /\ [][NextDiagramGen]_vars /\ WF_vars(NextDiagramGen)

\* Lab1/diagrams/diagram.py
SpecGameOfLife == Init /\ [][NextGameOfLife]_vars

(***************************************************************************)
(* Claims about aggregate_runs and plot_per_implementation                 *)
(***************************************************************************)
\* the per-loop times of the entries seen for (label, t), t and time both non-null
TimesSeen(label, t) ==
    { entries_seen[i][2].per_loop_time_s : i \in
        { j \in 1..Len(entries_seen) :
            /\ entries_seen[j][1] = label
            /\ entries_seen[j][2].numThreads = t
            /\ entries_seen[j][2].per_loop_time_s # None } }

\* C1: for every (label, numThreads) pair with at least one entry whose thread
\* count and per-loop time are both non-null, data[label][numThreads] is the
\* minimum per-loop time over all those entries, whatever their order.
C1_AggregateKeepsMinimum ==
    \A label \in KmLabels, t \in KmThreads \ {None} :
        TimesSeen(label, t) # {} =>
            /\ label \in DOMAIN data
            /\ t \in DOMAIN data[label]
            /\ data[label][t] = SetMin(TimesSeen(label, t))

\* a (label, t) pair measured twice, the faster run first and the slower one last
C1_Witness ==
    \E i, j \in 1..Len(entries_seen) :
        /\ i < j
        /\ entries_seen[i][1] = entries_seen[j][1]
        /\ entries_seen[i][2].numThreads = entries_seen[j][2].numThreads
        /\ entries_seen[i][2].numThreads # None
        /\ entries_seen[i][2].per_loop_time_s # None
        /\ entries_seen[j][2].per_loop_time_s # None
        /\ entries_seen[i][2].per_loop_time_s < entries_seen[j][2].per_loop_time_s
        /\ data[entries_seen[i][1]][entries_seen[i][2].numThreads]
               = entries_seen[i][2].per_loop_time_s

\* the indices of the sequential entries seen for a configuration key
SequentialSeen(key) ==
    { j \in 1..Len(entries_seen) :
        /\ IsSequentialLabel(entries_seen[j][1])
        /\ entries_seen[j][2].numThreads = None
        /\ entries_seen[j][2].per_loop_time_s # None
        /\ ConfigKeyOf(entries_seen[j][2]) = key }

\* C4: when several sequential entries share a configuration key,
\* sequential_data[config_key] is the time of the first one in scan order.
C4_SequentialFirstWins ==
    \A key \in KmConfigs :
        SequentialSeen(key) # {} =>
            /\ key \in DOMAIN sequential_data
            /\ sequential_data[key] =
                   entries_seen[SetMin(SequentialSeen(key))][2].per_loop_time_s

\* C5: every parallel time whose speedup plot_per_implementation computes against
\* a sequential baseline was measured under the baseline's configuration (equal
\* dataset size, numCoords and numClusters).
C5_SpeedupOnlyAgainstOwnConfig ==
    \A label \in DOMAIN km_plots \ {"sequential"} :
        \A k \in 1..Len(km_plots[label].threads) :
            \E j \in 1..Len(entries_seen) :
                /\ entries_seen[j][1] = label
                /\ entries_seen[j][2].numThreads = km_plots[label].threads[k]
                /\ entries_seen[j][2].per_loop_time_s = km_plots[label].times[k + 1]
                /\ ConfigKeyOf(entries_seen[j][2]) \in DOMAIN sequential_data
                /\ sequential_data[ConfigKeyOf(entries_seen[j][2])] = km_plots[label].times[1]
                /\ ConfigKeyOf(entries_seen[j][2]) = LabelConfigKey(label)

(***************************************************************************)
(* Claims about parse_fw_recursive                                         *)
(***************************************************************************)
\* the index of the last '-- SIZE --' header for a size among the lines scanned
LastSizeHeader(size) ==
    SetMax({-1} \cup { j \in 0..(Len(fw_lines) - 1) :
                         fw_lines[j + 1].kind = "size" /\ fw_lines[j + 1].n = size })

\* the times of the timing lines that resolved to (size, nthreads) since the
\* size's last header
TimesResolved(size, nthreads) ==
    { fw_log[a][4] : a \in { b \in 1..Len(fw_log) :
                               /\ fw_log[b][2] = size
                               /\ fw_log[b][3] = nthreads
                               /\ fw_log[b][1] > LastSizeHeader(size) } }

\* C2: when two FW_SR timing lines of a file resolve to the same (matrix size,
\* nthreads) pair, data[size]['threads'][nthreads] is the minimum of their
\* times, not the time that comes last in the file.
C2_FwKeepsMinimum ==
    \A size \in FwSizes, nthreads \in FwThreadCounts :
        TimesResolved(size, nthreads) # {} =>
            /\ size \in DOMAIN fw_data
            /\ nthreads \in DOMAIN fw_data[size].threads
            /\ fw_data[size].threads[nthreads] = SetMin(TimesResolved(size, nthreads))

\* the 'nthreads=' lines among the five lines before the line about to be scanned
HeadersInWindow ==
    { j \in 1..Len(fw_lines) : j >= Len(fw_lines) - 4 /\ fw_lines[j].kind = "nthreads" }

\* C9: a FW_SR timing line at index i gets the thread count of the nearest
\* preceding 'nthreads=' line among lines i-1 down to i-5; when none of those
\* five lines is an 'nthreads=' line the measurement is discarded, and it is
\* never matched to an 'nthreads=' line further back.
C9_BoundedBackwardSearch ==
    [][ \A ln \in FwWindowLines :
          ( /\ fw_lines' = Append(fw_lines, ln)
            /\ ln.kind = "fw_sr"
            /\ cur_size # None
            /\ ln.n = cur_size )
          => IF HeadersInWindow = {}
             THEN fw_data' = fw_data
             ELSE fw_data' = [fw_data EXCEPT ![cur_size].threads =
                                 Put(@, fw_lines[SetMax(HeadersInWindow)].n, ln.val)]
      ]_vars

\* a timing line whose only 'nthreads=' line lies six lines back was discarded
C9_Witness ==
    LET n == Len(fw_lines)
    IN  /\ n >= 8
        /\ fw_lines[n].kind = "fw_sr"
        /\ fw_lines[n - 6].kind = "nthreads"
        /\ \A j \in (n - 5)..(n - 1) : fw_lines[j].kind = "other"
        /\ fw_lines[1].kind = "size"
        /\ cur_size = fw_lines[n].n
        /\ fw_data[cur_size].threads = EmptyDict

(***************************************************************************)
(* Claims about parse_conc_ll_results and merge_results                    *)
(***************************************************************************)
\* the throughput of the serial block whose header is at p: the first
\* Throughput line between the header and the next header of either kind
BlockThroughput(content, p) ==
    LET after == { q \in (p + 1)..Len(content) :
                     content[q].kind \in {"serial_hdr", "par_hdr"} }
        stop == IF after = {} THEN Len(content) + 1 ELSE SetMin(after)
        thr == { q \in (p + 1)..(stop - 1) : content[q].kind = "thr" }
    IN  IF thr = {} THEN None ELSE content[SetMin(thr)].val

\* the serial blocks of a configuration that report a throughput, by header position
SerialBlocks(content, cfg) ==
    { p \in 1..Len(content) :
        /\ content[p].kind = "serial_hdr"
        /\ content[p].cfg = cfg
        /\ BlockThroughput(content, p) # None }

\* the first of the merged serial dicts that holds a baseline for cfg
FirstMerged(cfg) == SetMin({ k \in 1..Len(ll_merged) : cfg \in DOMAIN ll_merged[k] })

\* C3: when a file holds several serial blocks of one (size, percents)
\* configuration, serial_baselines holds the throughput of the first of
\* them in file order; and merge_results never replaces a serial baseline
\* already present in the accumulator.
C3_FirstSerialBaselineKept ==
    /\ ll_pc = "parsed" =>
          \A cfg \in LlConfigs :
              Cardinality(SerialBlocks(ll_content, cfg)) >= 2 =>
                  /\ cfg \in DOMAIN serial_baselines
                  /\ serial_baselines[cfg] =
                        BlockThroughput(ll_content, SetMin(SerialBlocks(ll_content, cfg)))
    /\ \A cfg \in LlConfigs :
          (\E k \in 1..Len(ll_merged) : cfg \in DOMAIN ll_merged[k]) =>
              /\ cfg \in DOMAIN acc_serial
              /\ acc_serial[cfg] = ll_merged[FirstMerged(cfg)][cfg]

(***************************************************************************)
(* Claims about plot_speedup and print_summary                             *)
(***************************************************************************)
\* the configurations with parallel records and no serial baseline
MissingBaseline == DOMAIN pl_data \ DOMAIN pl_serial

\* C6: for a parse result in which some configuration has parallel records but
\* no serial baseline (and no baseline is the degenerate 0), plot_speedup
\* followed by print_summary completes without raising, derives no speedup for
\* that configuration and warns about it.
C6_MissingBaselineNonFatal ==
    (MissingBaseline # {} /\ \A cfg \in DOMAIN pl_serial : pl_serial[cfg] # 0) =>
        /\ pl_pc # "raised"
        /\ pl_pc \in {"summary", "done"} => MissingBaseline \subseteq pl_warned
        /\ \A cfg \in MissingBaseline : cfg \notin DOMAIN pl_series /\ cfg \notin DOMAIN pl_printed

\* C8: for every configuration with a serial baseline and every implementation,
\* the series plot_speedup plots holds exactly the thread counts the
\* implementation has a measurement for, each once, in strictly ascending order,
\* each with the value measurement / serial baseline of that configuration; and
\* when plot_speedup returns, every configuration with a baseline has its series.
C8_SeriesOfPresentLevels ==
    /\ \A cfg \in DOMAIN pl_series :
          /\ cfg \in DOMAIN pl_data \cap DOMAIN pl_serial
          /\ DOMAIN pl_series[cfg] = DOMAIN pl_data[cfg]
          /\ \A impl \in DOMAIN pl_data[cfg] :
                LET points == pl_series[cfg][impl]
                    results == pl_data[cfg][impl]
                IN  /\ { points[k][1] : k \in 1..Len(points) } = DOMAIN results
                    /\ \A k \in 1..(Len(points) - 1) : points[k][1] < points[k + 1][1]
                    /\ \A k \in 1..Len(points) :
                          points[k][2] = <<results[points[k][1]], pl_serial[cfg]>>
    /\ pl_pc \in {"summary", "done"} =>
          DOMAIN pl_data \cap DOMAIN pl_serial \subseteq DOMAIN pl_series

\* two implementations of a configuration with a baseline, one measured at both
\* thread counts and one at the larger only, have been plotted
C8_Witness ==
    /\ pl_pc \in {"summary", "done"}
    /\ \E cfg \in DOMAIN pl_series :
          \E a, b \in DOMAIN pl_data[cfg] :
              /\ DOMAIN pl_data[cfg][a] = {1, 2}
              /\ DOMAIN pl_data[cfg][b] = {2}
              /\ Len(pl_series[cfg][a]) = 2
              /\ Len(pl_series[cfg][b]) = 1

(***************************************************************************)
(* Claims about analyze_performance.py                                     *)
(***************************************************************************)
\* C7: for every lock implementation and every thread count on the axis, a time
\* bar and a speedup bar are produced only if the implementation has a
\* measurement at that thread count: a missing measurement is omitted, never
\* replaced by time 0 or speedup 1.
C7_NoFabricatedValues ==
    /\ \A name \in DOMAIN lk_times :
          \A k \in 1..Len(lk_times[name]) :
              /\ lk_times[name][k][1] \in DOMAIN all_data[name]
              /\ lk_times[name][k][2] = all_data[name][lk_times[name][k][1]]
    /\ \A name \in DOMAIN lk_speedups :
          \A k \in 1..Len(lk_speedups[name]) :
              /\ lk_speedups[name][k][1] \in DOMAIN all_data[name]
              /\ lk_speedups[name][k][2] =
                    <<seq_time, all_data[name][lk_speedups[name][k][1]]>>

(***************************************************************************)
(* Claims about the scanner of conc_ll/plots/plot.py                       *)
(***************************************************************************)
\* C10: a result line read before an implementation line has been seen, or
\* before a SIZE/PERCENTS header has been seen, produces no entry in data or
\* serial and does not raise; the scan goes on with the next line.
C10_ContextlessResultSkipped ==
    ( \/ \A k \in 1..Len(pp_lines) : pp_lines[k].kind # "impl"
      \/ \A k \in 1..Len(pp_lines) : pp_lines[k].kind # "header" )
    => /\ pp_data = EmptyDict
       /\ pp_serial = EmptyDict
       /\ pp_pc = "scan"

\* a result line, and one with a malformed number, were read after the header
\* and before any implementation line, and the scan went on to a later line
C10_Witness ==
    /\ Len(pp_lines) = 4
    /\ pp_lines[1].kind = "header"
    /\ pp_lines[2].kind = "result" /\ pp_lines[2].val = Malformed
    /\ pp_lines[3].kind = "result" /\ pp_lines[3].val # Malformed
    /\ pp_lines[4].kind = "impl"
    /\ pp_pc = "scan"
    /\ pp_data = EmptyDict
(***************************************************************************)
(* Claims about the heat-transfer parsers                                  *)
(***************************************************************************)
\* the indices of the 'Num MPI Tasks' lines among the lines scanned
TasksLinesSeen == { j \in 1..Len(ht_lines) : ht_lines[j].kind = "tasks" }

C17_ParsersIdempotent ==
    [][ (ht_last' = ht_last /\ ht_last[1] # NoneStr) =>
            /\ serial_data' = serial_data
            /\ mpi_data' = mpi_data
      ]_vars

\* each parser has been called twice in a row on a file with measurements, and
\* the last call repeated a parse_mpi_results call that recorded a timing line
C17_Witness ==
    /\ ht_repeated = {"parse_serial_results", "parse_mpi_results"}
    /\ ht_last[1] = "parse_mpi_results"
    /\ ht_last[3] = "Jacobi"
    /\ Len(ht_last[2]) = 2
    /\ ht_last[2][1].kind = "tasks" /\ ht_last[2][2].kind = "jacobi"
    /\ mpi_data["Jacobi"][ht_last[2][1].n][1] = ht_last[2][2].metrics
    /\ "Jacobi" \in DOMAIN serial_data
(***************************************************************************)
(* Claims about parse_results of diagram_gen.py                            *)
(***************************************************************************)
\* the index of the last header line before line k, or 0
LastHeaderBefore(k) ==
    SetMax({0} \cup { h \in 1..(k - 1) : dg_lines[h].kind = "header" })

\* the timing lines that come after a header line
TimingWithHeader ==
    { k \in 1..Len(dg_lines) : dg_lines[k].kind = "timing" /\ LastHeaderBefore(k) # 0 }

\* C12: when a configuration header line is followed by two timing lines with no
\* header between them, both timing lines yield a record carrying that header's
\* configuration: every timing line after a header has a record with its time
\* and the configuration of the last header before it, one record per line.
C12_TimingLinesInheritHeader ==
    dg_pc = "done" =>
        /\ \A k \in TimingWithHeader :
              \E r \in 1..Len(dg_results) :
                  /\ dg_results[r].per_loop_time_s = dg_lines[k].val
                  /\ ConfigKeyOf(dg_results[r]) = dg_lines[LastHeaderBefore(k)].cfg
        /\ Cardinality({ r \in 1..Len(dg_results) : dg_results[r].per_loop_time_s # None })
              = Cardinality(TimingWithHeader)

(***************************************************************************)
(* Claims about make_plots                                                 *)
(***************************************************************************)
\* C13: for every size with a serial time and every canonical thread count t
\* with a recorded non-zero time, the speedup entry is serial time / time at t;
\* the 'seq' entry is 1; a size without a serial time yields no speedup at all.
C13_FwSpeedup ==
    /\ \A size \in DOMAIN mk_speedups :
          /\ mk_data[size].serial # None
          /\ Len(mk_speedups[size]) = Len(FwCanonical) + 1
          /\ mk_speedups[size][1] = <<1, 1>>
          /\ \A k \in 1..Len(FwCanonical) :
                LET t == FwCanonical[k]
                IN  (t \in DOMAIN mk_data[size].threads /\ mk_data[size].threads[t] # 0) =>
                        mk_speedups[size][k + 1] =
                            <<mk_data[size].serial, mk_data[size].threads[t]>>
    /\ mk_pc = "done" =>
          \A size \in DOMAIN mk_data :
              IF mk_data[size].serial = None
              THEN size \notin DOMAIN mk_speedups /\ size \notin DOMAIN mk_times
              ELSE size \in DOMAIN mk_speedups

\* a size with serial time 2 and time 1 at two threads was plotted with speedup
\* 2 / 1, and a size without a serial time was skipped
C13_Witness ==
    /\ mk_pc = "done"
    /\ \E size \in DOMAIN mk_speedups :
          /\ mk_data[size].serial = 2
          /\ 2 \in DOMAIN mk_data[size].threads
          /\ mk_data[size].threads[2] = 1
          /\ mk_speedups[size][3] = <<2, 1>>
    /\ \E size \in DOMAIN mk_data : mk_data[size].serial = None /\ size \in mk_skipped

(***************************************************************************)
(* Claims about zero times in plot_per_implementation                      *)
(***************************************************************************)
\* C14: when a label has a recorded per-loop time of 0 at some thread count (and
\* the sequential baseline is not 0), that record's speedup is omitted and the
\* run continues: plot_per_implementation does not raise, and when it returns
\* every label with a baseline has the speedups of its non-zero canonical times.
C14_ZeroTimeOmitted ==
    (\A key \in DOMAIN sequential_data : sequential_data[key] # 0) =>
        /\ km_pc # "raised"
        /\ km_pc = "done" =>
              \A label \in DOMAIN data :
                  \A t \in DOMAIN data[label] :
                      ( /\ data[label][t] # 0
                        /\ \E k \in 1..Len(Canonical) : Canonical[k] = t
                        /\ LabelConfigKey(label) \in DOMAIN sequential_data )
                      => /\ label \in DOMAIN km_plots
                         /\ \E k \in 1..Len(km_plots[label].threads) :
                               /\ km_plots[label].threads[k] = t
                               /\ km_plots[label].speedups[k + 1] =
                                     <<sequential_data[LabelConfigKey(label)], data[label][t]>>

(***************************************************************************)
(* Claims about malformed numbers in parse_conc_ll_results                 *)
(***************************************************************************)
\* the matches whose throughput is a number
WellFormed(matches) == SelectSeq(matches, LAMBDA m : m.val # Malformed)

\* C15: a throughput token that matches the capture pattern and is not a valid
\* number makes only that measurement be discarded: the call does not raise,
\* and the serial baselines returned are those of the other serial matches.
C15_MalformedNumberDiscarded ==
    /\ ll_pc # "raised"
    /\ ll_pc = "parsed" =>
          serial_baselines = StoreBaselines(WellFormed(SerialMatches(ll_content, 1)), 1, EmptyDict)

(***************************************************************************)
(* Claims about parse_results of lab3/plot_all_speedups.py                 *)
(***************************************************************************)
\* the sections with 'block_size', a block size, a time, and an implementation header
CompleteSections(name) ==
    SelectSeq(g3_content, LAMBDA sec : /\ sec.word /\ sec.bs # None /\ sec.time # None
                                       /\ sec.time # Malformed /\ sec.impl = name)

\* C16: each section is handled on its own: a section without 'block_size'
\* yields no record; one with 'block_size' that lacks a t_loop_avg value, an
\* implementation header or a parsable number is discarded; and that never
\* removes or alters the records of the other sections.  Stated for files whose
\* 'Sequential Kmeans' sections carry no malformed number themselves.
C16_SectionsParsedAlone ==
    (\A p \in 1..Len(g3_content) : g3_content[p].seq => g3_content[p].time # Malformed) =>
        /\ g3_pc # "raised"
        /\ g3_pc = "parsed" =>
              /\ \A name \in DOMAIN g3_impl_data : name # NoneStr
              /\ \A name \in {"Naive GPU", "Shared GPU"} :
                    IF CompleteSections(name) = <<>>
                    THEN name \notin DOMAIN g3_impl_data
                    ELSE /\ name \in DOMAIN g3_impl_data
                         /\ g3_impl_data[name] =
                               [k \in 1..Len(CompleteSections(name)) |->
                                   [bs |-> CompleteSections(name)[k].bs,
                                    time |-> CompleteSections(name)[k].time]]

(***************************************************************************)
(* Claims about merge_results of lab2/conc_ll/plots/plot_speedups.py       *)
(***************************************************************************)
\* C18: from empty accumulators, merging the parse result of file A and then
\* that of file B gives the same serial baselines and the same (config,
\* implementation, threads) -> throughput table as merging B and then A,
\* whatever configurations, implementations and thread counts the two share.
C18_MergeOrderIndependent ==
    mo_pc = "done" => mo_ab = mo_ba

(***************************************************************************)
(* Claims about aggregate_runs over a list of files                        *)
(***************************************************************************)
\* what aggregate_runs returns for a list in which no parse raises
RECURSIVE AggregateAll(_, _, _)
AggregateAll(acc, files, k) ==
    IF k > Len(files) THEN acc
    ELSE AggregateAll(AggregateEntries(acc, files[k].label, files[k].entries, 1), files, k + 1)

\* C19: when parsing a file of the list raises, that file is skipped with a
\* message naming it, the remaining files are still processed, and what
\* aggregate_runs returns is what it would return had the failing files not
\* been in the list.
C19_FailingFileIsolated ==
    ag_pc = "done" =>
        /\ ag_acc = AggregateAll(AgEmpty, SelectSeq(ag_files, LAMBDA f : ~f.raises), 1)
        /\ \A k \in 1..Len(ag_files) :
              ag_files[k].raises <=> (\E j \in 1..Len(ag_printed) : ag_printed[j] = k)
        /\ \A j \in 1..Len(ag_printed) : \A j2 \in 1..Len(ag_printed) :
              ag_printed[j] = ag_printed[j2] => j = j2

\* a failing file came first and a later file's measurements were returned
C19_Witness ==
    /\ ag_pc = "done"
    /\ Len(ag_files) >= 2
    /\ ag_files[1].raises
    /\ ag_printed = <<1>>
    /\ ag_acc.data # EmptyDict

(***************************************************************************)
(* Claims about plot_combined                                              *)
(***************************************************************************)
\* the configurations with a combined chart
ChartedConfigs == { cb_created[k][2] : k \in 1..Len(cb_created) }

\* the configurations that two or more labels with measurements share
SharedConfigs ==
    { c \in KmConfigs : Len(SelectSeq(cb_order, LAMBDA label :
                                 cb_data[label] # EmptyDict /\ cb_meta[label] = c)) >= 2 }

\* C20: a combined chart is produced for a configuration only if it has a
\* sequential baseline; and once plot_combined has ended, every configuration
\* shared by several labels but lacking a baseline has no combined chart and
\* was named in a warning.
C20_CombinedNeedsBaseline ==
    /\ \A c \in ChartedConfigs : c \in DOMAIN cb_seq
    /\ cb_pc \in {"done", "raised"} =>
          \A c \in SharedConfigs :
              c \notin DOMAIN cb_seq => c \notin ChartedConfigs /\ c \in cb_warned

(***************************************************************************)
(* Claims about the efficiency table of analyze_performance.py             *)
(***************************************************************************)
\* C21: efficiency is derived only for the records of the parallel
\* implementations, as (seq_time / time at t) / t at each thread count t they
\* have a time for; no efficiency value is derived for the sequential
\* baseline itself.
C21_EfficiencyOfParallelRuns ==
    ef_pc = "done" =>
        /\ \A name \in DOMAIN ef_table \ {"Sequential"} :
              /\ name \in DOMAIN all_data
              /\ \A k \in 1..Len(ef_table[name]) :
                    LET t == ef_table[name][k][1]
                    IN  IF t \in DOMAIN all_data[name]
                        THEN ef_table[name][k][2] = <<Ratio(seq_time, all_data[name][t]), t>>
                        ELSE ef_table[name][k][2] = "N/A"
        /\ "Sequential" \notin DOMAIN ef_table

(***************************************************************************)
(* Claims about the MPI kmeans plots                                       *)
(***************************************************************************)
\* C22: every speedup of generate_plots is relative to the time of a run
\* with exactly 1 task, for every parsed result list, lists without a 1-task
\* run and lists with several runs of one task count included.
C22_BaselineIsOneTaskRun ==
    mp_pc = "plotted" =>
        \E b \in 1..Len(mp_results) :
            /\ mp_results[b][1] = 1
            /\ \A k \in 1..Len(mp_results) :
                  mp_speedups[k] = Ratio(mp_results[b][2], mp_results[k][2])

(***************************************************************************)
(* Claims about the plotting loop of conc_ll/plots/plot.py                 *)
(***************************************************************************)
\* the configurations the plotting loop has gone through
PlottedKeys == { FirstOccurrences(pt_order, 1, <<>>)[k] : k \in 1..(pt_i - 1) }

\* C23: for every (configuration, implementation) group the speedups are
\* relative to the throughput recorded for that implementation under that
\* configuration at nthreads == 1; a group without such a record, or whose
\* 1-thread throughput is 0, gets no speedup series and a warning, and the
\* other groups are still processed.
C23_BaselineIsOwnOneThreadRun ==
    \A key \in PlottedKeys : \A impl \in DOMAIN pt_data[key] :
        LET runs == pt_data[key][impl]
        IN  IF 1 \in DOMAIN runs /\ runs[1] # 0
            THEN /\ impl \in DOMAIN pt_series[key]
                 /\ <<impl, key>> \notin pt_warned
                 /\ Len(pt_series[key][impl]) = Cardinality(DOMAIN runs)
                 /\ \A k \in 1..Len(pt_series[key][impl]) :
                       LET t == pt_series[key][impl][k][1]
                       IN  /\ t \in DOMAIN runs
                           /\ pt_series[key][impl][k][2] = Ratio(runs[t], runs[1])
            ELSE /\ impl \notin DOMAIN pt_series[key]
                 /\ <<impl, key>> \in pt_warned

\* the script ended after warning about a group without a 1-thread run and a
\* group with a 1-thread throughput of 0, and plotting a third group
C23_Witness ==
    /\ pt_pc = "done"
    /\ \E key \in DOMAIN pt_data : \E impl \in DOMAIN pt_data[key] :
          1 \notin DOMAIN pt_data[key][impl] /\ <<impl, key>> \in pt_warned
    /\ \E key \in DOMAIN pt_data : \E impl \in DOMAIN pt_data[key] :
          /\ 1 \in DOMAIN pt_data[key][impl]
          /\ pt_data[key][impl][1] = 0
          /\ <<impl, key>> \in pt_warned
    /\ \E key \in DOMAIN pt_series : \E impl \in DOMAIN pt_series[key] :
          pt_series[key][impl] # <<>>

(***************************************************************************)
(* Further claims about parse_fw_recursive                                 *)
(***************************************************************************)
\* C24: a serial time or a thread time recorded for a matrix size stays in
\* the dictionary as the scan goes on, unless the line scanned is a
\* measurement line for the same size (and thread count) that replaces it; in
\* particular a later '-- SIZE --' header for a size already seen discards
\* nothing recorded for that size.
C24_NoMeasurementLost ==
    [][ \A ln \in FwLines : fw_lines' = Append(fw_lines, ln) =>
          \A size \in DOMAIN fw_data :
              /\ size \in DOMAIN fw_data'
              /\ fw_data[size].serial # None =>
                    \/ fw_data'[size].serial = fw_data[size].serial
                    \/ ln.kind = "serial" /\ ln.n = size
                          /\ fw_data'[size].serial = ln.val
              /\ \A t \in DOMAIN fw_data[size].threads :
                    /\ t \in DOMAIN fw_data'[size].threads
                    /\ \/ fw_data'[size].threads[t] = fw_data[size].threads[t]
                       \/ ln.kind = "fw_sr" /\ ln.n = size
                             /\ fw_data'[size].threads[t] = ln.val
      ]_vars

\* the index of the last line of a kind before index i (indices from 0), or -1
LastOfKindBefore(kind, i) ==
    SetMax({-1} \cup { j \in 0..(i - 1) : fw_lines[j + 1].kind = kind })

\* C25: the 'nthreads=' line that gives a FW_SR timing line its thread count
\* lies after the most recent '-- SIZE --' header, so no timing line gets a
\* thread count announced before the header of its size block.
C25_SearchStaysInSizeBlock ==
    \A a \in 1..Len(fw_log) :
        LastOfKindBefore("nthreads", fw_log[a][1]) > LastOfKindBefore("size", fw_log[a][1])

(***************************************************************************)
(* Further claims about parse_conc_ll_results                              *)
(***************************************************************************)
\* the throughputs between the header at p and the next header of either kind
ThroughputsOfBlock(content, p) ==
    LET after == { q \in (p + 1)..Len(content) :
                     content[q].kind \in {"serial_hdr", "par_hdr"} }
        stop == IF after = {} THEN Len(content) + 1 ELSE SetMin(after)
    IN  { content[q].val : q \in { r \in (p + 1)..(stop - 1) : content[r].kind = "thr" } }

\* C26: the throughput stored in serial_baselines for a configuration appears
\* in the text between a serial header of that configuration and the next
\* header of any kind; a serial block without a throughput line gives no
\* baseline, rather than the throughput of a later block.
C26_BaselineFromOwnBlock ==
    ll_pc = "parsed" =>
        \A cfg \in DOMAIN serial_baselines :
            \E p \in 1..Len(ll_content) :
                /\ ll_content[p].kind = "serial_hdr"
                /\ ll_content[p].cfg = cfg
                /\ serial_baselines[cfg] \in ThroughputsOfBlock(ll_content, p)

(***************************************************************************)
(* Claims about parse_parallel of analyze_performance.py                   *)
(***************************************************************************)
\* the times between the nthreads header at p and the next nthreads header
TimesOfBlock(content, p) ==
    LET after == { q \in (p + 1)..Len(content) : content[q].kind = "hdr" }
        stop == IF after = {} THEN Len(content) + 1 ELSE SetMin(after)
    IN  { content[q].val : q \in { r \in (p + 1)..(stop - 1) : content[r].kind = "total" } }

\* C27: results[K] is a time reported between a '--- nthreads = K ---' header
\* and the next nthreads header; a header whose block has no timing line
\* yields no entry, takes no timing of the following block, and does not make
\* the following block's thread count go missing.
C27_TimeFromOwnBlock ==
    pr_pc = "parsed" =>
        /\ \A n \in DOMAIN pr_results :
              \E p \in 1..Len(pr_content) :
                  /\ pr_content[p].kind = "hdr"
                  /\ pr_content[p].n = n
                  /\ pr_results[n] \in TimesOfBlock(pr_content, p)
        /\ \A p \in 1..Len(pr_content) :
              (pr_content[p].kind = "hdr" /\ TimesOfBlock(pr_content, p) # {})
                  => pr_content[p].n \in DOMAIN pr_results

(***************************************************************************)
(* Further claims about parse_results of diagram_gen.py                    *)
(***************************************************************************)
\* the indices (from 1) of the header lines, in file order
HeaderLines == SortedInts({ h \in 1..Len(dg_lines) : dg_lines[h].kind = "header" })

\* the index of the first line after h that ends the block of the header at
\* h: the first timing line or the next header, or one past the last line
BlockEnd(h) ==
    SetMin({Len(dg_lines) + 1}
           \cup { q \in (h + 1)..Len(dg_lines) : dg_lines[q].kind \in {"header", "timing"} })

\* the thread count of the last 'number of threads' line in (h, q), or None
LastThreadsBetween(h, q) ==
    LET ths == { r \in (h + 1)..(q - 1) : dg_lines[r].kind = "threads" }
    IN  IF ths = {} THEN None ELSE dg_lines[SetMax(ths)].n

\* C28: parse_results returns one entry per configuration header line, in
\* file order; a header with a timing line before the next header gives an
\* entry with that timing and the last thread count seen between the header
\* and the timing; a header with no timing line before the next header or
\* the end of the file gives an entry whose timing is None.
C28_OneEntryPerHeader ==
    dg_pc = "done" =>
        /\ Len(dg_results) = Len(HeaderLines)
        /\ \A k \in 1..Len(HeaderLines) :
              LET h == HeaderLines[k]
                  q == BlockEnd(h)
              IN  /\ <<dg_results[k].dataset_size_MB, dg_results[k].numCoords,
                       dg_results[k].numClusters>> = dg_lines[h].cfg
                  /\ dg_results[k].numThreads = LastThreadsBetween(h, q)
                  /\ dg_results[k].per_loop_time_s =
                        IF q <= Len(dg_lines) /\ dg_lines[q].kind = "timing"
                        THEN dg_lines[q].val ELSE None

\* a file with a header, two different thread counts and a timing line, then
\* a header without a timing line, was parsed
C28_Witness ==
    /\ dg_pc = "done"
    /\ Len(dg_lines) >= 4
    /\ dg_lines[1].kind = "header"
    /\ dg_lines[2].kind = "threads"
    /\ dg_lines[3].kind = "threads" /\ dg_lines[3].n # dg_lines[2].n
    /\ dg_lines[4].kind = "timing"
    /\ Len(dg_results) = 1
    /\ dg_results[1].numThreads = dg_lines[3].n

\* C29: parse_results terminates on every finite list of lines: the outer
\* index strictly increases in every iteration of the outer loop and never
\* passes the end of the list, whether the inner scan stops at a new header,
\* at a timing line or at the end of the file, and the function returns.
C29_OuterIndexIncreases ==
    /\ [][ (dg_pc = "loop" /\ dg_pc' = "loop") =>
              (dg_i' > dg_i /\ dg_i' <= Len(dg_lines)) ]_vars
    /\ <>(dg_pc = "done")

\* parse_results returned on a file in which the inner scan stopped at a
\* timing line, at a new header and at the end of the file
C29_Witness ==
    /\ dg_pc = "done"
    /\ Len(dg_lines) = 4
    /\ dg_lines[1].kind = "header"
    /\ dg_lines[2].kind = "timing"
    /\ dg_lines[3].kind = "header"
    /\ dg_lines[4].kind = "header"
    /\ Len(dg_results) = 3

(***************************************************************************)
(* Claims about Lab1/diagrams/diagram.py                                   *)
(***************************************************************************)
\* C30: for any input log, logs with repeated or missing runs for a size
\* included, every size has as many recorded times and speedups as there are
\* thread levels, so that the k-th time of a size pairs with
\* number_of_threads[k]; speedup[size][0] is 1; and the plots are drawn.
C30_OneTimePerThreadLevel ==
    /\ gl_pc # "raised"
    /\ gl_pc \in {"computed", "done"} =>
          \A size \in DOMAIN gl_results :
              /\ Len(gl_results[size]) = Len(number_of_threads)
              /\ Len(gl_speedup[size]) = Len(number_of_threads)
              /\ gl_speedup[size][1] = 10000
====
